---- MODULE Spec2Model ----
(***************************************************************************)
(* KaGen: the chunk-partitioned deterministic 3D grid generator            *)
(* (include/generators/grid/grid_3d.h) run by P participants.              *)
(*                                                                         *)
(* Every participant holds one Grid3D object.  Generate() is synchronous   *)
(* and purely local, so it is one atomic action per participant; the       *)
(* participants interleave freely.  Around it: the edge sink GeneratorIO   *)
(* every generator holds (include/io/generator_io.h), the KaGen interface  *)
(* call that builds and runs a generator (interface/kagen_interface.h),    *)
(* and the edge list writers (kagen/io/io.cpp), whose steps are separated  *)
(* by the MPI collectives they call.                                       *)
(***************************************************************************)
EXTENDS Integers, Sequences, FiniteSets, Bags, TLC

VARIABLES
    config,   \* PGeneratorConfig as handed to every participant
    size,     \* MPI_Comm_size: the number of participants P
    gen,      \* gen[rank]: the members of the Grid3D object of participant rank
    edges,    \* edges[rank]: the calls cb_(source, target) of participant rank, in order
    io,       \* io[rank]: the GeneratorIO sink io_ of the Grid3D object
    kagen,    \* kagen[rank]: the KaGen interface object and its call in progress
    pc,       \* pc[rank]: the position of participant rank in WriteGraph
    files     \* files[f]: the records of output file f, in file order

vars == <<config, size, gen, edges, io, kagen, pc, files>>

----------------------------------------------------------------------------
(* Bounds of the model *)

MaxDim == 2      \* grid_x, grid_y, grid_z range over 1..MaxDim
MaxK == 8        \* the chunk count k ranges over 1..MaxK
MaxP == 2        \* the number of participants ranges over 1..MaxP
MaxSeed == 0     \* config.seed ranges over 0..MaxSeed
MaxRanks == 3    \* the participants of SpecManyRanks range over 1..MaxRanks
MaxCalls == 2    \* interface calls a participant makes on its KaGen object
MaxDistSize == 2 \* config.dist_size ranges over 1..MaxDistSize and the default
MaxOps == 4      \* operations invoked on a sink of SpecSinkOps
MaxSeedN == 6    \* the vertex count X*Y*Z of SpecSeed ranges over 1..MaxSeedN
SeedBits == 4    \* the bits of the word SpecSeed computes edge seeds in
MaxLocalNodes == 3 \* vertices in the vertex range handed to a library routine
MaxCutEdges == 2    \* edges of a list handed to the locality statistics
MaxLocalEdges == 3 \* edges in the edge list handed to a library routine

----------------------------------------------------------------------------
(* Fixed-width arithmetic.  SInt is an unsigned 64 bit word; the model    *)
(* keeps the wrap-around of unsigned arithmetic with a 30 bit word, which  *)
(* every value the bounds produce fits in.                                 *)

SIntModulus == 2^30

Min(a, b) == IF a < b THEN a ELSE b

Max(a, b) == IF a < b THEN b ELSE a

BoolToInt(b) == IF b THEN 1 ELSE 0

----------------------------------------------------------------------------
(* The deterministic coin: sampling::Spooky::hash and                     *)
(* RNGWrapper::GenerateBinomial(h, 1, p).  Probabilities are kept as       *)
(* numerators over PDen.                                                   *)

PDen == 2^1

HashRange == 2^4

\* a mixer onto 0..HashRange-1
Hash(x) == ((x * 7) + ((x \div 3) * 5) + ((x \div 5) * 3) + 3) % HashRange

\* one Bernoulli trial: 1 iff h / HashRange < p / PDen
GenerateBinomial(h, trials, p) == IF h * PDen < p * HashRange THEN trials ELSE 0

----------------------------------------------------------------------------
(* Grid3D::Generate, lines 36-64: dimensions and chunk distribution *)

\* cbrt(total_chunks_) truncated to an integer (line 46); the library's cbrt is
\* exact on the perfect cubes within the bounds
Cbrt(k) == CHOOSE d \in 0..k : d * d * d <= k /\ (d + 1) * (d + 1) * (d + 1) > k

Dimensions(cfg) ==
    LET d == Cbrt(cfg.k)
    IN  [ total_x |-> cfg.grid_x, total_y |-> cfg.grid_y, total_z |-> cfg.grid_z,
          edge_probability |-> cfg.p,
          total_chunks |-> cfg.k,
          chunks_per_dim |-> d,
          x_per_chunk |-> cfg.grid_x \div d, remaining_x |-> cfg.grid_x % d,
          y_per_chunk |-> cfg.grid_y \div d, remaining_y |-> cfg.grid_y % d,
          z_per_chunk |-> cfg.grid_z \div d, remaining_z |-> cfg.grid_z % d,
          periodic |-> cfg.periodic,
          seed |-> cfg.seed ]

\* mutant of NumChunks: the leftover chunks are handed to nobody
NumChunksNoLeftover(k, P, rank) == k \div P

\* lines 48-49
NumChunks(k, P, rank) == (k \div P) + BoolToInt(rank < k % P)

\* mutant of StartChunk: min(rank, leftover) added for every rank
StartChunkPlusRank(k, P, rank) ==
    rank * NumChunks(k, P, rank) + Min(rank, k % P)

\* lines 50-51
StartChunk(k, P, rank) ==
    rank * NumChunks(k, P, rank) + (IF rank >= k % P THEN k % P ELSE 0)

----------------------------------------------------------------------------
(* Chunk coding *)

Decode(g, id) ==
    [ x |-> id % g.chunks_per_dim,
      y |-> (id \div g.chunks_per_dim) % g.chunks_per_dim,
      z |-> id \div (g.chunks_per_dim * g.chunks_per_dim) ]

Encode(g, x, y, z) ==
    x + y * g.chunks_per_dim + z * (g.chunks_per_dim * g.chunks_per_dim)

\* xs, ys, zs of a chunk: lines 133-135 and 191-193
ChunkXs(g, chunk_x) == g.x_per_chunk + BoolToInt(chunk_x < g.remaining_x)

ChunkYs(g, chunk_y) == g.y_per_chunk + BoolToInt(chunk_y < g.remaining_y)

ChunkZs(g, chunk_z) == g.z_per_chunk + BoolToInt(chunk_z < g.remaining_z)

\* mutant of OffsetForChunk: the triple intersection is not added back
OffsetForChunkNoTriple(g, chunk) ==
    LET c == Decode(g, chunk)
        vertex_x == c.x * g.x_per_chunk + Min(c.x, g.remaining_x)
        vertex_y == c.y * g.y_per_chunk + Min(c.y, g.remaining_y)
        vertex_z == c.z * g.z_per_chunk + Min(c.z, g.remaining_z)
        next_vertex_y == (c.y + 1) * g.y_per_chunk + Min(c.y + 1, g.remaining_y)
        next_vertex_z == (c.z + 1) * g.z_per_chunk + Min(c.z + 1, g.remaining_z)
    IN  ( g.total_x * vertex_y * next_vertex_z
          + g.total_x * g.total_y * vertex_z
          + vertex_x * next_vertex_y * next_vertex_z
          - (g.total_x * vertex_y * vertex_z + vertex_x * vertex_y * next_vertex_z
             + vertex_x * next_vertex_y * vertex_z) ) % SIntModulus

OffsetForChunk(g, chunk) ==
    LET c == Decode(g, chunk)
        vertex_x == c.x * g.x_per_chunk + Min(c.x, g.remaining_x)
        vertex_y == c.y * g.y_per_chunk + Min(c.y, g.remaining_y)
        vertex_z == c.z * g.z_per_chunk + Min(c.z, g.remaining_z)
        next_vertex_y == (c.y + 1) * g.y_per_chunk + Min(c.y + 1, g.remaining_y)
        next_vertex_z == (c.z + 1) * g.z_per_chunk + Min(c.z + 1, g.remaining_z)
        upper_cube == g.total_x * vertex_y * next_vertex_z
        frontal_cube == g.total_x * g.total_y * vertex_z
        frontal_left_cube == vertex_x * next_vertex_y * next_vertex_z
        intersect_upper_frontal == g.total_x * vertex_y * vertex_z
        intersect_upper_frontal_left == vertex_x * vertex_y * next_vertex_z
        intersect_frontal_frontal_left == vertex_x * next_vertex_y * vertex_z
        intersect_all == vertex_x * vertex_y * vertex_z
    IN  ( upper_cube + frontal_cube + frontal_left_cube
          - (intersect_upper_frontal + intersect_upper_frontal_left
             + intersect_frontal_frontal_left)
          + intersect_all ) % SIntModulus

----------------------------------------------------------------------------
(* Neighbour queries *)

Directions == <<"Right", "Left", "Up", "Down", "Front", "Back">>

DirectionX(direction) ==
    CASE direction = "Left" -> -1
      [] direction = "Right" -> 1
      [] OTHER -> 0

DirectionY(direction) ==
    CASE direction = "Up" -> -1
      [] direction = "Down" -> 1
      [] OTHER -> 0

DirectionZ(direction) ==
    CASE direction = "Front" -> -1
      [] direction = "Back" -> 1
      [] OTHER -> 0

IsLocalVertex(local_x, local_y, local_z, xs, ys, zs) ==
    /\ ~(local_x < 0 \/ local_x >= xs)
    /\ ~(local_y < 0 \/ local_y >= ys)
    /\ ~(local_z < 0 \/ local_z >= zs)

IsValidChunk(g, chunk_x, chunk_y, chunk_z) ==
    /\ ~(chunk_x < 0 \/ chunk_x >= g.chunks_per_dim)
    /\ ~(chunk_y < 0 \/ chunk_y >= g.chunks_per_dim)
    /\ ~(chunk_z < 0 \/ chunk_z >= g.chunks_per_dim)

LocateVertexInChunk(g, chunk, local_x, local_y, local_z, direction) ==
    LET offset == OffsetForChunk(g, chunk)
        c == Decode(g, chunk)
        xs == ChunkXs(g, c.x)
        ys == ChunkYs(g, c.y)
        zs == ChunkZs(g, c.z)
        local_neighbor_x ==
            CASE direction = "Right" -> 0
              [] direction = "Left" -> xs - 1
              [] OTHER -> local_x
        local_neighbor_y ==
            CASE direction = "Up" -> ys - 1
              [] direction = "Down" -> 0
              [] OTHER -> local_y
        local_neighbor_z ==
            CASE direction = "Front" -> zs - 1
              [] direction = "Back" -> 0
              [] OTHER -> local_z
    IN  (offset + (local_neighbor_x + local_neighbor_y * xs
                   + local_neighbor_z * (xs * ys))) % SIntModulus

\* mutant of EdgeSeed: the pair is not put in (min, max) order
EdgeSeedOrdered(g, source, target) ==
    (source * g.total_y * g.total_x * g.total_z + target) % SIntModulus

\* lines 234-235, in unsigned arithmetic modulo word
EdgeSeedWord(word, g, source, target) ==
    (Min(source, target) * g.total_y * g.total_x * g.total_z
        + Max(source, target)) % word

\* lines 234-235
EdgeSeed(g, source, target) == EdgeSeedWord(SIntModulus, g, source, target)

\* lines 236-237: the Bernoulli decision for the pair
Accepts(g, source, target) ==
    GenerateBinomial(Hash((g.seed + EdgeSeed(g, source, target)) % SIntModulus),
                     1, g.edge_probability) = 1

\* the calls cb_(source, target) GenerateEdge makes: none or one
GenerateEdge(g, source, target) ==
    IF Accepts(g, source, target) THEN << <<source, target>> >> ELSE << >>

\* the vertices QueryInDirection hands to GenerateEdge as target: none or one
QueryTarget(g, chunk, vertex, direction) ==
    LET offset == OffsetForChunk(g, chunk)
        local_vertex == vertex - offset
        c == Decode(g, chunk)
        xs == ChunkXs(g, c.x)
        ys == ChunkYs(g, c.y)
        zs == ChunkZs(g, c.z)
        local_x == local_vertex % xs
        local_y == (local_vertex \div xs) % ys
        local_z == local_vertex \div (xs * ys)
        local_neighbor_x == local_x + DirectionX(direction)
        local_neighbor_y == local_y + DirectionY(direction)
        local_neighbor_z == local_z + DirectionZ(direction)
        neighbor_chunk_x == c.x + DirectionX(direction)
        neighbor_chunk_y == c.y + DirectionY(direction)
        neighbor_chunk_z == c.z + DirectionZ(direction)
        wrapped_x == IF g.periodic
                     THEN (neighbor_chunk_x + g.chunks_per_dim) % g.chunks_per_dim
                     ELSE neighbor_chunk_x
        wrapped_y == IF g.periodic
                     THEN (neighbor_chunk_y + g.chunks_per_dim) % g.chunks_per_dim
                     ELSE neighbor_chunk_y
        wrapped_z == IF g.periodic
                     THEN (neighbor_chunk_z + g.chunks_per_dim) % g.chunks_per_dim
                     ELSE neighbor_chunk_z
    IN  IF IsLocalVertex(local_neighbor_x, local_neighbor_y, local_neighbor_z,
                         xs, ys, zs)
        THEN << (offset + (local_neighbor_x + local_neighbor_y * xs
                           + local_neighbor_z * (xs * ys))) % SIntModulus >>
        ELSE IF ~IsValidChunk(g, wrapped_x, wrapped_y, wrapped_z)
             THEN << >>
             ELSE << LocateVertexInChunk(g, Encode(g, wrapped_x, wrapped_y, wrapped_z),
                                         local_x, local_y, local_z, direction) >>

QueryInDirection(g, chunk, vertex, direction) ==
    LET t == QueryTarget(g, chunk, vertex, direction)
    IN  IF t = << >> THEN << >> ELSE GenerateEdge(g, vertex, t[1])

\* mutant of GenerateEdges: Left is queried before Right
GenerateEdgesLeftFirst(g, chunk, vertex) ==
    QueryInDirection(g, chunk, vertex, "Left")
    \o QueryInDirection(g, chunk, vertex, "Right")
    \o QueryInDirection(g, chunk, vertex, "Up")
    \o QueryInDirection(g, chunk, vertex, "Down")
    \o QueryInDirection(g, chunk, vertex, "Front")
    \o QueryInDirection(g, chunk, vertex, "Back")

GenerateEdges(g, chunk, vertex) ==
    QueryInDirection(g, chunk, vertex, "Right")
    \o QueryInDirection(g, chunk, vertex, "Left")
    \o QueryInDirection(g, chunk, vertex, "Up")
    \o QueryInDirection(g, chunk, vertex, "Down")
    \o QueryInDirection(g, chunk, vertex, "Front")
    \o QueryInDirection(g, chunk, vertex, "Back")

RECURSIVE GenerateVertices(_, _, _, _)
\* the loop of GenerateChunk from vertex i on
GenerateVertices(g, chunk, i, end_vertex) ==
    IF i < end_vertex
    THEN GenerateEdges(g, chunk, i) \o GenerateVertices(g, chunk, i + 1, end_vertex)
    ELSE << >>

GenerateChunk(g, chunk) ==
    GenerateVertices(g, chunk, OffsetForChunk(g, chunk), OffsetForChunk(g, chunk + 1))

RECURSIVE GenerateChunks(_, _, _, _)
\* the loop of Generate (lines 70-72) from iteration i on
GenerateChunks(g, start_chunk, i, num_chunks) ==
    IF i < num_chunks
    THEN GenerateChunk(g, start_chunk + i)
         \o GenerateChunks(g, start_chunk, i + 1, num_chunks)
    ELSE << >>

----------------------------------------------------------------------------
(* The edge sink GeneratorIO (include/io/generator_io.h).  A sink is the    *)
(* record of its members; output_edges tells whether the generator was     *)
(* built with OUTPUT_EDGES (PushEdge per emission) or without (UpdateDist  *)
(* of both endpoints).  calls_PushEdge and calls_UpdateDist are history:   *)
(* how often each operation was invoked on the sink.                       *)

DefaultDistSize == 10

\* GeneratorIO::GeneratorIO: dist_ resized to config_.dist_size, zero filled
NewGeneratorIO(dist_size, output_edges) ==
    [ output_edges |-> output_edges,
      dist |-> [i \in 0..(dist_size - 1) |-> 0],
      edges_ |-> << >>,
      local_num_edges |-> 0,
      calls_PushEdge |-> 0,
      calls_UpdateDist |-> 0 ]

\* dist_.size()
DistSize(sink) == Cardinality(DOMAIN sink.dist)

UpdateDist(sink, node_id) ==
    [ sink EXCEPT
        !.dist = IF node_id < DistSize(sink)
                 THEN [@ EXCEPT ![node_id] = (@ + 1) % SIntModulus]
                 ELSE @,
        !.local_num_edges = (@ + 1) % SIntModulus,
        !.calls_UpdateDist = @ + 1 ]

PushEdge(sink, source, target) ==
    [ sink EXCEPT
        !.edges_ = Append(@, <<source, target>>),
        !.local_num_edges = (@ + 1) % SIntModulus,
        !.calls_PushEdge = @ + 1 ]

\* mutant of NumEdges: the increment count is not halved
NumEdgesNotHalved(sink) ==
    IF Len(sink.edges_) > 0 THEN Len(sink.edges_) ELSE sink.local_num_edges

NumEdges(sink) ==
    IF Len(sink.edges_) > 0 THEN Len(sink.edges_) ELSE sink.local_num_edges \div 2

\* the number of endpoints of the pairs emitted that are node_id
Endpoints(emitted, node_id) ==
    Cardinality({j \in DOMAIN emitted : emitted[j][1] = node_id})
    + Cardinality({j \in DOMAIN emitted : emitted[j][2] = node_id})

\* what GenerateEdge does to io_ over the accepted pairs emitted, in their
\* order (lines 240-245): one PushEdge per pair with OUTPUT_EDGES, else one
\* UpdateDist per endpoint of each pair
SinkEmissions(sink, emitted) ==
    IF sink.output_edges
    THEN [ sink EXCEPT
             !.edges_ = @ \o emitted,
             !.local_num_edges = (@ + Len(emitted)) % SIntModulus,
             !.calls_PushEdge = @ + Len(emitted) ]
    ELSE [ sink EXCEPT
             !.dist = [node_id \in DOMAIN @ |->
                         (@[node_id] + Endpoints(emitted, node_id)) % SIntModulus],
             !.local_num_edges = (@ + 2 * Len(emitted)) % SIntModulus,
             !.calls_UpdateDist = @ + 2 * Len(emitted) ]

----------------------------------------------------------------------------
(* The Grid3D object *)

Ranks == 0..(size - 1)

\* Grid3D::Grid3D: the members are left for Generate() to set
Unstarted == [ state |-> "Unstarted", n |-> 0, start_chunk |-> 0, num_chunks |-> 0,
               start_node |-> 0, end_node |-> 0, num_nodes |-> 0 ]

\* Grid3D::Generate on participant rank
Generate(rank) ==
    /\ gen[rank].state = "Unstarted"
    /\ Cbrt(config.k) > 0
    /\ LET g == Dimensions(config)
           num_chunks == NumChunks(config.k, size, rank)
           start_chunk == StartChunk(config.k, size, rank)
           end_chunk == start_chunk + num_chunks
           start_node == OffsetForChunk(g, start_chunk)
           end_node == OffsetForChunk(g, end_chunk)
       IN  /\ gen' = [gen EXCEPT ![rank] =
                        [ state |-> "Finished",
                          n |-> config.grid_x * config.grid_y * config.grid_z,
                          start_chunk |-> start_chunk,
                          num_chunks |-> num_chunks,
                          start_node |-> start_node,
                          end_node |-> end_node,
                          num_nodes |-> (end_node - start_node) % SIntModulus ]]
           /\ edges' = [edges EXCEPT ![rank] =
                          GenerateChunks(g, start_chunk, 0, num_chunks)]
           /\ io' = [io EXCEPT ![rank] =
                       SinkEmissions(@, edges'[rank])]
    /\ UNCHANGED <<config, size>>

\* mutant of GetVertexRange: the pair (first, first invalid)
GetVertexRangeExclusive(rank) ==
    << gen[rank].start_node, (gen[rank].start_node + gen[rank].num_nodes) % SIntModulus >>

\* Grid3D::GetVertexRange: (first, last inclusive)
GetVertexRange(rank) ==
    << gen[rank].start_node,
       (gen[rank].start_node + gen[rank].num_nodes - 1) % SIntModulus >>

----------------------------------------------------------------------------
(* The parts of the state a specification that runs the generator alone    *)
(* leaves as they are                                                      *)

\* KaGen::KaGen: no interface call made yet.  objects, generates and reads
\* are history: the generator objects constructed so far, and the Generate()
\* and GetVertexRange() calls made on the latest of them; arg_k is the
\* argument k of the latest call.
KaGenNew == [ pc |-> "Idle", calls |-> 0, objects |-> 0, generates |-> 0,
              reads |-> 0, result |-> << >>, arg_k |-> 0 ]

NoInterface == kagen = [rank \in 0..(size - 1) |-> KaGenNew]

\* a participant that has not entered an output routine.  openable tells
\* whether opening an output file succeeds on this participant;
\* invalid_handle_uses counts the stdio calls made on a null FILE*, and error
\* tells whether an I/O error was surfaced.  handle is the state of the FILE*
\* of the GeneratorIO output routines, closes counts the fclose calls made on it
\* once it was open, and closed_handle_uses the stdio calls made on it after it
\* was closed.
NotWriting == [ at |-> "Idle", pe |-> 0, number_of_nodes |-> 0,
                number_of_edges |-> 0, openable |-> TRUE,
                invalid_handle_uses |-> 0, error |-> FALSE,
                handle |-> "None", closes |-> 0, closed_handle_uses |-> 0 ]

\* a file without content; by[i] tells which participant wrote records[i], and
\* whether as part of a header or of an edge
EmptyFile == [ records |-> << >>, by |-> << >> ]

\* file 0 is config.output_file, file rank + 1 is config.output_file + "_" + rank
NoOutput ==
    /\ pc = [rank \in 0..(size - 1) |-> NotWriting]
    /\ files = [f \in 0..size |-> EmptyFile]

----------------------------------------------------------------------------
(* Specification: every configuration the constructor accepts with         *)
(* positive dimensions, k >= 1 and p in {0, 1/2, 1}                        *)

\* the seed only enters the coin, which is constant for p = 0 and p = 1
Coins == {[p |-> 0, seed |-> 0], [p |-> PDen, seed |-> 0]}
         \cup {[p |-> 1, seed |-> s] : s \in 0..MaxSeed}

Init ==
    /\ size \in 1..MaxP
    /\ \E x \in 1..MaxDim, y \in 1..MaxDim, z \in 1..MaxDim, k \in 1..MaxK,
          periodic \in BOOLEAN, coin \in Coins :
          config = [ grid_x |-> x, grid_y |-> y, grid_z |-> z, n |-> x * y * z,
                     k |-> k, p |-> coin.p, periodic |-> periodic,
                     seed |-> coin.seed, self_loops |-> FALSE ]
    /\ gen = [rank \in 0..(size - 1) |-> Unstarted]
    /\ edges = [rank \in 0..(size - 1) |-> << >>]
    /\ io = [rank \in 0..(size - 1) |-> NewGeneratorIO(DefaultDistSize, FALSE)]
    /\ NoInterface
    /\ NoOutput

Next == \E rank \in Ranks : Generate(rank) /\ UNCHANGED <<kagen, pc, files>>

Spec == Init /\ [][Next]_vars

----------------------------------------------------------------------------
(* Specification with more participants, for what depends on how the       *)
(* chunks are dealt out to them: p is 1/2 or 1, the seed is 0.             *)

InitManyRanks ==
    /\ size \in 1..MaxRanks
    /\ \E x \in 1..MaxDim, y \in 1..MaxDim, z \in 1..MaxDim, k \in 1..MaxK,
          periodic \in BOOLEAN, p \in {1, PDen} :
          config = [ grid_x |-> x, grid_y |-> y, grid_z |-> z, n |-> x * y * z,
                     k |-> k, p |-> p, periodic |-> periodic,
                     seed |-> 0, self_loops |-> FALSE ]
    /\ gen = [rank \in 0..(size - 1) |-> Unstarted]
    /\ edges = [rank \in 0..(size - 1) |-> << >>]
    /\ io = [rank \in 0..(size - 1) |-> NewGeneratorIO(DefaultDistSize, FALSE)]
    /\ NoInterface
    /\ NoOutput

SpecManyRanks == InitManyRanks /\ [][Next]_vars

----------------------------------------------------------------------------
(* Specification over every configuration the constructor accepts: the    *)
(* constructor checks nothing, so this adds k = 0, zero dimensions,        *)
(* p outside [0,1] and a configured n that is not grid_x*grid_y*grid_z.    *)

\* Generate() with k = 0: chunks_per_dim_ = 0, and the divisions and
\* remainders by it (lines 55-62, 315-317) are undefined.  The build either
\* traps ("Crashed"), or returns with arbitrary node bounds ("Undefined");
\* num_chunks is 0 / size, so no chunk is generated.
GenerateDivByZero(rank) ==
    /\ gen[rank].state = "Unstarted"
    /\ Cbrt(config.k) = 0
    /\ \E trap \in BOOLEAN, first \in 0..1, last \in 0..1 :
          gen' = [gen EXCEPT ![rank] =
                    IF trap
                    THEN [@ EXCEPT !.state = "Crashed"]
                    ELSE [ state |-> "Undefined",
                           n |-> config.grid_x * config.grid_y * config.grid_z,
                           start_chunk |-> StartChunk(config.k, size, rank),
                           num_chunks |-> NumChunks(config.k, size, rank),
                           start_node |-> first, end_node |-> last,
                           num_nodes |-> (last - first) % SIntModulus ]]
    /\ UNCHANGED <<config, size, edges, io>>

AnyCoins == {[p |-> q, seed |-> 0] : q \in {0 - 1, 0, PDen, PDen + 1}}
            \cup {[p |-> 1, seed |-> 0]}

InitAnyConfig ==
    /\ size \in 1..MaxP
    /\ \E x \in 0..MaxDim, y \in 0..MaxDim, z \in 0..MaxDim, k \in 0..(MaxK + 1),
          periodic \in BOOLEAN, coin \in AnyCoins, extra \in 0..1 :
          config = [ grid_x |-> x, grid_y |-> y, grid_z |-> z,
                     n |-> x * y * z + extra,
                     k |-> k, p |-> coin.p, periodic |-> periodic,
                     seed |-> coin.seed, self_loops |-> FALSE ]
    /\ gen = [rank \in 0..(size - 1) |-> Unstarted]
    /\ edges = [rank \in 0..(size - 1) |-> << >>]
    /\ io = [rank \in 0..(size - 1) |-> NewGeneratorIO(DefaultDistSize, FALSE)]
    /\ NoInterface
    /\ NoOutput

NextAnyConfig ==
    \/ \E rank \in Ranks : Generate(rank) /\ UNCHANGED <<kagen, pc, files>>
    \/ \E rank \in Ranks : GenerateDivByZero(rank) /\ UNCHANGED <<kagen, pc, files>>

SpecAnyConfig == InitAnyConfig /\ [][NextAnyConfig]_vars

----------------------------------------------------------------------------
(* The KaGen interface (interface/kagen_interface.h): every participant    *)
(* holds a KaGen object and calls Generate3DGrid on it, up to MaxCalls     *)
(* times, all participants with the same arguments.  A call constructs the *)
(* generator, runs it, reads its vertex range and returns; the generator   *)
(* is a local of the call and dies with it.                                *)

\* line 499 with SetDefaults (line 561): k = 0 stands for the default size_
KaGenK(k, P) == IF k = 0 THEN P ELSE k

\* mutant of Generate3DGridEnter: the generator of the previous call is kept
Generate3DGridEnterReuse(rank) ==
    /\ kagen[rank].pc = "Idle"
    /\ kagen[rank].calls < MaxCalls
    /\ kagen' = [kagen EXCEPT ![rank] =
                   [@ EXCEPT !.pc = "Constructed",
                             !.objects = IF @ = 0 THEN 1 ELSE @]]
    /\ gen' = [gen EXCEPT ![rank] =
                 IF kagen[rank].objects = 0 THEN Unstarted ELSE @]
    /\ UNCHANGED <<config, size, edges, io, pc, files>>

\* Generate3DGrid, lines 491-509: the local edge list, the callback and the
\* generator object are set up
Generate3DGridEnter(rank) ==
    /\ kagen[rank].pc = "Idle"
    /\ kagen[rank].calls < MaxCalls
    /\ kagen' = [kagen EXCEPT ![rank] =
                   [@ EXCEPT !.pc = "Constructed",
                             !.objects = @ + 1,
                             !.generates = 0,
                             !.reads = 0,
                             !.result = << >>]]
    /\ gen' = [gen EXCEPT ![rank] = Unstarted]
    /\ edges' = [edges EXCEPT ![rank] = << >>]
    /\ io' = [io EXCEPT ![rank] = NewGeneratorIO(DefaultDistSize, FALSE)]
    /\ UNCHANGED <<config, size, pc, files>>

\* line 510: gen.Generate()
Generate3DGridRun(rank) ==
    /\ kagen[rank].pc = "Constructed"
    /\ Generate(rank)
    /\ kagen' = [kagen EXCEPT ![rank] =
                   [@ EXCEPT !.pc = "Generated", !.generates = @ + 1]]
    /\ UNCHANGED <<pc, files>>

\* lines 512-513: the vertex range is put in front of the edges, the list is
\* returned and the generator destroyed
Generate3DGridReturn(rank) ==
    /\ kagen[rank].pc = "Generated"
    /\ kagen' = [kagen EXCEPT ![rank] =
                   [@ EXCEPT !.pc = "Idle",
                             !.calls = @ + 1,
                             !.reads = @ + 1,
                             !.result = <<GetVertexRange(rank)>> \o edges[rank]]]
    /\ gen' = [gen EXCEPT ![rank] = [@ EXCEPT !.state = "NoObject"]]
    /\ UNCHANGED <<config, size, edges, io, pc, files>>

InitInterface ==
    /\ size \in 1..MaxP
    /\ \E side \in 1..MaxDim, k \in {0, 1, MaxK}, periodic \in BOOLEAN :
          config = [ grid_x |-> side, grid_y |-> side, grid_z |-> side,
                     n |-> 100, k |-> KaGenK(k, size), p |-> 1,
                     periodic |-> periodic, seed |-> 1, self_loops |-> FALSE ]
    /\ gen = [rank \in 0..(size - 1) |-> [Unstarted EXCEPT !.state = "NoObject"]]
    /\ edges = [rank \in 0..(size - 1) |-> << >>]
    /\ io = [rank \in 0..(size - 1) |-> NewGeneratorIO(DefaultDistSize, FALSE)]
    /\ NoInterface
    /\ NoOutput

NextInterface ==
    \/ \E rank \in Ranks : Generate3DGridEnter(rank)
    \/ \E rank \in Ranks : Generate3DGridRun(rank)
    \/ \E rank \in Ranks : Generate3DGridReturn(rank)

SpecInterface == InitInterface /\ [][NextInterface]_vars

----------------------------------------------------------------------------
(* Specification: calls of Generate3DGrid with different arguments k on    *)
(* one KaGen object.  The participants run the same program; the calls of  *)
(* participant 0 are followed, and config is the config_ of its object.    *)

\* Generate3DGrid, lines 491-509, called with the chunk count k: config_ is
\* updated from the arguments (line 499 for k), and the local edge list, the
\* callback and the generator object are set up
Generate3DGridEnterK(rank, k) ==
    /\ kagen[rank].pc = "Idle"
    /\ kagen[rank].calls < MaxCalls
    /\ config' = [config EXCEPT !.k = IF k = 0 THEN @ ELSE k]
    /\ kagen' = [kagen EXCEPT ![rank] =
                   [@ EXCEPT !.pc = "Constructed",
                             !.objects = @ + 1,
                             !.generates = 0,
                             !.reads = 0,
                             !.result = << >>,
                             !.arg_k = k]]
    /\ gen' = [gen EXCEPT ![rank] = Unstarted]
    /\ edges' = [edges EXCEPT ![rank] = << >>]
    /\ io' = [io EXCEPT ![rank] = NewGeneratorIO(DefaultDistSize, FALSE)]
    /\ UNCHANGED <<size, pc, files>>

\* KaGen::KaGen and SetDefaults (lines 39-41, 558-580) on P participants:
\* config_.k = size_
InitInterfaceCalls ==
    /\ size \in 1..MaxP
    /\ \E side \in 1..MaxDim, periodic \in BOOLEAN :
          config = [ grid_x |-> side, grid_y |-> side, grid_z |-> side,
                     n |-> 100, k |-> size, p |-> 1,
                     periodic |-> periodic, seed |-> 1, self_loops |-> FALSE ]
    /\ gen = [rank \in 0..(size - 1) |-> [Unstarted EXCEPT !.state = "NoObject"]]
    /\ edges = [rank \in 0..(size - 1) |-> << >>]
    /\ io = [rank \in 0..(size - 1) |-> NewGeneratorIO(DefaultDistSize, FALSE)]
    /\ NoInterface
    /\ NoOutput

NextInterfaceCalls ==
    \/ \E k \in {0, 1, MaxK} : Generate3DGridEnterK(0, k)
    \/ Generate3DGridRun(0)
    \/ Generate3DGridReturn(0)

SpecInterfaceCalls == InitInterfaceCalls /\ [][NextInterfaceCalls]_vars

----------------------------------------------------------------------------
(* The edge list writers (kagen/io/io.cpp).  WriteGraph dispatches to      *)
(* WriteEdgeList or WriteBinaryEdgeList, which differ only in the records  *)
(* they write.  A participant moves through pc[rank].at:                   *)
(*   Idle -> Create -> Bcast -> Allreduce -> Header -> Append -> Appending *)
(*        -> Barrier -> ... -> Done                                        *)
(* where Bcast, Allreduce and Barrier are the MPI collectives inside       *)
(* FindNumberOfGlobalNodes, FindNumberOfGlobalEdges and the append loop.   *)
(* A text file is a sequence of lines <<"p", n, m>> and <<"e", u, v>>, a   *)
(* binary file the sequence of its 64 bit words.                           *)

Collectives == {"Bcast", "Allreduce", "Barrier"}

\* the file a participant writes to: lines 75 and 90 (131 and 146)
OutputFileOf(rank) == IF config.output_single_file THEN 0 ELSE rank + 1

\* mutant of EdgeRecords: the vertex ids are written as they are
EdgeRecordsZeroBased(format, list) ==
    IF format = "EDGE_LIST"
    THEN [i \in 1..Len(list) |-> <<"e", list[i][1], list[i][2]>>]
    ELSE [i \in 1..(2 * Len(list)) |->
            IF i % 2 = 1 THEN list[(i + 1) \div 2][1] ELSE list[i \div 2][2]]

\* lines 54 and 106: one record (u+1, v+1) per edge, in list order
EdgeRecords(format, list) ==
    IF format = "EDGE_LIST"
    THEN [i \in 1..Len(list) |->
            <<"e", (list[i][1] + 1) % SIntModulus, (list[i][2] + 1) % SIntModulus>>]
    ELSE [i \in 1..(2 * Len(list)) |->
            IF i % 2 = 1
            THEN (list[(i + 1) \div 2][1] + 1) % SIntModulus
            ELSE (list[i \div 2][2] + 1) % SIntModulus]

\* lines 64 and 118-119
HeaderRecords(format, number_of_nodes, number_of_edges) ==
    IF format = "EDGE_LIST"
    THEN << <<"p", number_of_nodes, number_of_edges>> >>
    ELSE <<number_of_nodes, number_of_edges>>

\* records appended to file f by participant rank
AppendTo(f, rank, what, records) ==
    [files EXCEPT ![f] =
        [ records |-> @.records \o records,
          by |-> @.by \o [i \in 1..Len(records) |-> [rank |-> rank, what |-> what]] ]]

\* the position of a participant at the head of iteration pe of the append
\* loop, lines 83-88 (139-144)
LoopAt(rank, pe) ==
    IF pe >= size THEN "Done" ELSE IF pe = rank THEN "Append" ELSE "Barrier"

\* lines 11-19: vertex_range.second of the last participant
FindNumberOfGlobalNodes == GetVertexRange(size - 1)[2]

RECURSIVE SumOfEdges(_)
\* MPI_SUM of edges.size() over the participants from rank on
SumOfEdges(rank) ==
    IF rank < size THEN Len(edges[rank]) + SumOfEdges(rank + 1) ELSE 0

\* lines 22-27
FindNumberOfGlobalEdges == SumOfEdges(0) % SIntModulus

\* BufferedTextOutput (kagen/io/buffered_writer.h): opening the file fails on
\* this participant, and the failure is surfaced as an error
TextOpenFails(rank) == ~pc[rank].openable

\* WriteGraph, WriteEdgeList lines 71-76 (127-132): the root of a single file,
\* and everyone in per-rank mode, creates its file; the others go to the loop
WriteGraphEnter(rank) ==
    /\ pc[rank].at = "Idle"
    /\ gen[rank].state = "Finished"
    /\ pc' = [pc EXCEPT ![rank] =
                [@ EXCEPT !.pe = 0,
                          !.at = IF config.output_single_file /\ rank # 0
                                 THEN LoopAt(rank, 0)
                                 ELSE "Create"]]
    /\ UNCHANGED <<config, size, gen, edges, io, kagen, files>>

\* CreateFile, lines 29-31, and the branch on omit_header after it
CreateFile(rank) ==
    /\ pc[rank].at = "Create"
    /\ IF TextOpenFails(rank)
       THEN /\ pc' = [pc EXCEPT ![rank] = [@ EXCEPT !.at = "Failed", !.error = TRUE]]
            /\ UNCHANGED files
       ELSE /\ files' = [files EXCEPT ![OutputFileOf(rank)] = EmptyFile]
            /\ pc' = [pc EXCEPT ![rank] =
                        [@ EXCEPT !.at = IF config.output_header
                                         THEN "Bcast"
                                         ELSE IF config.output_single_file
                                              THEN LoopAt(rank, 0)
                                              ELSE "Append"]]
    /\ UNCHANGED <<config, size, gen, edges, io, kagen>>

\* where a participant is after the collective it waits in has completed with
\* the values nodes and total: lines 60-61 (114-115) and 87 (143)
AfterCollective(rank, nodes, total) ==
    CASE pc[rank].at = "Bcast" ->
           [pc[rank] EXCEPT
              !.number_of_nodes = nodes,
              !.number_of_edges = Len(edges[rank]),
              !.at = IF config.output_single_file THEN "Allreduce" ELSE "Header"]
      [] pc[rank].at = "Allreduce" ->
           [pc[rank] EXCEPT !.number_of_edges = total, !.at = "Header"]
      [] pc[rank].at = "Barrier" ->
           [pc[rank] EXCEPT !.pe = @ + 1, !.at = LoopAt(rank, pc[rank].pe + 1)]
      [] OTHER -> pc[rank]

\* every participant has entered the same collective: it completes
CollectiveComplete ==
    /\ \E kind \in Collectives : \A rank \in Ranks : pc[rank].at = kind
    /\ pc' = [rank \in Ranks |->
                AfterCollective(rank, FindNumberOfGlobalNodes, FindNumberOfGlobalEdges)]
    /\ UNCHANGED <<config, size, gen, edges, io, kagen, files>>

\* every participant waits in a collective, but not all in the same one: the
\* MPI program is erroneous.  The library either never completes the calls
\* (no step), or matches them by their order on the communicator; then they
\* complete, and a receive buffer holds either what it held before the call
\* (the own vertex_range.second, line 15) or anything else (0 here).
CollectiveMismatch ==
    /\ \A rank \in Ranks : pc[rank].at \in Collectives
    /\ \E r1 \in Ranks, r2 \in Ranks : pc[r1].at # pc[r2].at
    /\ \E zero \in BOOLEAN :
          pc' = [rank \in Ranks |->
                   AfterCollective(rank,
                                   IF zero THEN 0 ELSE GetVertexRange(rank)[2],
                                   IF zero THEN 0 ELSE Len(edges[rank]))]
    /\ UNCHANGED <<config, size, gen, edges, io, kagen, files>>

\* AppendEdgeListHeader lines 63-64, AppendBinaryEdgeListHeader lines 117-120.
\* The binary writer does not look at what fopen returns: on a null handle it
\* calls fwrite twice and fclose, which is undefined, and either traps or goes on.
AppendHeader(rank) ==
    /\ pc[rank].at = "Header"
    /\ LET next == IF config.output_single_file THEN LoopAt(rank, 0) ELSE "Append"
       IN  IF pc[rank].openable
           THEN /\ files' = AppendTo(OutputFileOf(rank), rank, "header",
                                     HeaderRecords(config.output_format,
                                                   pc[rank].number_of_nodes,
                                                   pc[rank].number_of_edges))
                /\ pc' = [pc EXCEPT ![rank] = [@ EXCEPT !.at = next]]
           ELSE /\ UNCHANGED files
                /\ IF config.output_format = "EDGE_LIST"
                   THEN pc' = [pc EXCEPT ![rank] =
                                 [@ EXCEPT !.at = "Failed", !.error = TRUE]]
                   ELSE \E trap \in BOOLEAN :
                          pc' = [pc EXCEPT ![rank] =
                                   [@ EXCEPT !.invalid_handle_uses = @ + 3,
                                             !.at = IF trap THEN "Crashed" ELSE next]]
    /\ UNCHANGED <<config, size, gen, edges, io, kagen>>

\* AppendEdgeList line 52, AppendBinaryEdgeList line 104: the file is opened
\* for appending
AppendOpen(rank) ==
    /\ pc[rank].at = "Append"
    /\ pc' = [pc EXCEPT ![rank] =
                IF config.output_format = "EDGE_LIST" /\ TextOpenFails(rank)
                THEN [@ EXCEPT !.at = "Failed", !.error = TRUE]
                ELSE [@ EXCEPT !.at = "Appending"]]
    /\ UNCHANGED <<config, size, gen, edges, io, kagen, files>>

\* AppendEdgeList lines 53-56, AppendBinaryEdgeList lines 105-109: the records
\* are written and the file is closed; on a null handle the binary writer calls
\* fwrite once per edge and fclose
AppendEdges(rank) ==
    /\ pc[rank].at = "Appending"
    /\ LET next == IF config.output_single_file THEN "Barrier" ELSE "Done"
       IN  IF pc[rank].openable
           THEN /\ files' = AppendTo(OutputFileOf(rank), rank, "edge",
                                     EdgeRecords(config.output_format, edges[rank]))
                /\ pc' = [pc EXCEPT ![rank] = [@ EXCEPT !.at = next]]
           ELSE /\ UNCHANGED files
                /\ \E trap \in BOOLEAN :
                      pc' = [pc EXCEPT ![rank] =
                               [@ EXCEPT !.invalid_handle_uses = @ + Len(edges[rank]) + 1,
                                         !.at = IF trap THEN "Crashed" ELSE next]]
    /\ UNCHANGED <<config, size, gen, edges, io, kagen>>

\* cubic grids with every adjacency accepted, written in either format, with
\* or without header, to one file or one per participant; at most one
\* participant cannot open output files
InitWrite ==
    /\ size \in 1..MaxP
    /\ \E side \in 1..MaxDim, k \in {1, MaxK},
          format \in {"EDGE_LIST", "BINARY_EDGE_LIST"},
          header \in BOOLEAN, single_file \in BOOLEAN :
          config = [ grid_x |-> side, grid_y |-> side, grid_z |-> side,
                     n |-> side * side * side, k |-> k, p |-> PDen,
                     periodic |-> FALSE, seed |-> 0, self_loops |-> FALSE,
                     output_format |-> format, output_header |-> header,
                     output_single_file |-> single_file ]
    /\ gen = [rank \in 0..(size - 1) |-> Unstarted]
    /\ edges = [rank \in 0..(size - 1) |-> << >>]
    /\ io = [rank \in 0..(size - 1) |-> NewGeneratorIO(DefaultDistSize, FALSE)]
    /\ NoInterface
    /\ \E unable \in 0..size :
          pc = [rank \in 0..(size - 1) |-> [NotWriting EXCEPT !.openable = (rank # unable)]]
    /\ files = [f \in 0..size |-> EmptyFile]

NextWrite ==
    \/ \E rank \in Ranks : Generate(rank) /\ UNCHANGED <<kagen, pc, files>>
    \/ \E rank \in Ranks : WriteGraphEnter(rank)
    \/ \E rank \in Ranks : CreateFile(rank)
    \/ CollectiveComplete
    \/ CollectiveMismatch
    \/ \E rank \in Ranks : AppendHeader(rank)
    \/ \E rank \in Ranks : AppendOpen(rank)
    \/ \E rank \in Ranks : AppendEdges(rank)

SpecWrite == InitWrite /\ [][NextWrite]_vars

----------------------------------------------------------------------------
(* Dist mode: a generator built without OUTPUT_EDGES, whose Output() is    *)
(* GeneratorIO::OutputDist (include/io/generator_io.h, lines 45-59).       *)

RECURSIVE ReduceDist(_, _)
\* MPI_Reduce with MPI_SUM: entry i of dist_ summed over the participants
\* from rank on
ReduceDist(i, rank) ==
    IF rank < size
    THEN (io[rank].dist[i] + ReduceDist(i, rank + 1)) % SIntModulus
    ELSE 0

\* OutputDist on a participant other than the root: its dist_ goes into the
\* reduction (lines 50-51)
OutputDistSend(rank) ==
    /\ rank # 0
    /\ pc[rank].at = "Idle"
    /\ gen[rank].state = "Finished"
    /\ pc' = [pc EXCEPT ![rank] = [@ EXCEPT !.at = "Done"]]
    /\ UNCHANGED <<config, size, gen, edges, io, kagen, files>>

\* OutputDist on the root: the reduction completes once every participant
\* has contributed, and the root writes one line per entry (lines 52-58); the
\* handle fopen returns is not looked at
OutputDistRoot ==
    /\ pc[0].at = "Idle"
    /\ gen[0].state = "Finished"
    /\ \A rank \in Ranks : rank # 0 => pc[rank].at = "Done"
    /\ IF pc[0].openable
       THEN /\ files' = [files EXCEPT ![0] =
                          [ records |-> [i \in 1..DistSize(io[0]) |-> ReduceDist(i - 1, 0)],
                            by |-> [i \in 1..DistSize(io[0]) |->
                                      [rank |-> 0, what |-> "dist"]] ]]
            /\ pc' = [pc EXCEPT ![0] = [@ EXCEPT !.at = "Done",
                                                 !.handle = "Closed",
                                                 !.closes = @ + 1]]
       ELSE /\ UNCHANGED files
            /\ \E trap \in BOOLEAN :
                  pc' = [pc EXCEPT ![0] =
                           [@ EXCEPT !.invalid_handle_uses = @ + DistSize(io[0]) + 1,
                                     !.at = IF trap THEN "Crashed" ELSE "Done"]]
    /\ UNCHANGED <<config, size, gen, edges, io, kagen>>

InitSink ==
    /\ size \in 1..MaxP
    /\ \E x \in 1..MaxDim, y \in 1..MaxDim, k \in {1, MaxK}, periodic \in BOOLEAN,
          p \in {1, PDen}, dist_size \in (1..MaxDistSize) \cup {DefaultDistSize},
          openable \in BOOLEAN :
          /\ config = [ grid_x |-> x, grid_y |-> y, grid_z |-> 1, n |-> x * y,
                        k |-> k, p |-> p, periodic |-> periodic,
                        seed |-> 0, self_loops |-> FALSE, dist_size |-> dist_size ]
          /\ io = [rank \in 0..(size - 1) |-> NewGeneratorIO(dist_size, FALSE)]
          /\ pc = [rank \in 0..(size - 1) |->
                     [NotWriting EXCEPT !.openable = (openable \/ rank # 0)]]
    /\ gen = [rank \in 0..(size - 1) |-> Unstarted]
    /\ edges = [rank \in 0..(size - 1) |-> << >>]
    /\ NoInterface
    /\ files = [f \in 0..size |-> EmptyFile]

NextSink ==
    \/ \E rank \in Ranks : Generate(rank) /\ UNCHANGED <<kagen, pc, files>>
    \/ \E rank \in Ranks : OutputDistSend(rank)
    \/ OutputDistRoot

SpecSink == InitSink /\ [][NextSink]_vars

----------------------------------------------------------------------------
(* A GeneratorIO object on its own, driven by any sequence of at most      *)
(* MaxOps calls of PushEdge and UpdateDist.                                *)

SinkPushEdge(rank) ==
    /\ io[rank].calls_PushEdge + io[rank].calls_UpdateDist < MaxOps
    /\ \E source \in 0..1, target \in 0..1 :
          io' = [io EXCEPT ![rank] = PushEdge(@, source, target)]
    /\ UNCHANGED <<config, size, gen, edges, kagen, pc, files>>

SinkUpdateDist(rank) ==
    /\ io[rank].calls_PushEdge + io[rank].calls_UpdateDist < MaxOps
    /\ \E node_id \in 0..MaxDistSize :
          io' = [io EXCEPT ![rank] = UpdateDist(@, node_id)]
    /\ UNCHANGED <<config, size, gen, edges, kagen, pc, files>>

InitSinkOps ==
    /\ size = 1
    /\ \E dist_size \in 0..MaxDistSize, output_edges \in BOOLEAN :
          /\ config = [ grid_x |-> 1, grid_y |-> 1, grid_z |-> 1, n |-> 1, k |-> 1,
                        p |-> 0, periodic |-> FALSE, seed |-> 0,
                        self_loops |-> FALSE, dist_size |-> dist_size ]
          /\ io = [rank \in 0..(size - 1) |-> NewGeneratorIO(dist_size, output_edges)]
    /\ gen = [rank \in 0..(size - 1) |-> Unstarted]
    /\ edges = [rank \in 0..(size - 1) |-> << >>]
    /\ NoInterface
    /\ NoOutput

NextSinkOps ==
    \/ \E rank \in Ranks : SinkPushEdge(rank)
    \/ \E rank \in Ranks : SinkUpdateDist(rank)

SpecSinkOps == InitSinkOps /\ [][NextSinkOps]_vars

----------------------------------------------------------------------------
(* GeneratorIO::OutputEdges (include/io/generator_io.h, lines 71-77) in a  *)
(* build with OUTPUT_EDGES: GatherPrint (lines 91-159) when                *)
(* output_single_file is set, Print (lines 162-199) otherwise.  A          *)
(* participant moves through pc[rank].at:                                  *)
(*   Idle -> Gather -> Done                 (GatherPrint, not the root)    *)
(*   Idle -> Done | Crashed                 (GatherPrint, the root)        *)
(*   Idle -> Allreduce -> Write -> Done | Crashed               (Print)    *)

\* std::tuple's operator<
EdgeLess(a, b) == a[1] < b[1] \/ (a[1] = b[1] /\ a[2] < b[2])

\* std::sort (line 123): position i holds the element that has fewer than i
\* smaller elements before it, and its equals up to position i
SortEdges(list) ==
    LET elements == {list[i] : i \in DOMAIN list}
        smaller(e) == Cardinality({i \in DOMAIN list : EdgeLess(list[i], e)})
        equal(e) == Cardinality({i \in DOMAIN list : list[i] = e})
    IN  [i \in 1..Len(list) |->
            CHOOSE e \in elements : smaller(e) < i /\ i <= smaller(e) + equal(e)]

\* mutant of UniqueEdges: nothing is erased
UniqueEdgesKeepsAll(list) ==
    list

\* edges.erase(unique(...)) (line 125): every element equal to the one before
\* it is dropped
UniqueEdges(list) ==
    LET kept == {i \in DOMAIN list : i = 1 \/ list[i] # list[i - 1]}
        nth(j) == CHOOSE i \in kept : Cardinality({h \in kept : h < i}) = j - 1
    IN  [j \in 1..Cardinality(kept) |-> list[nth(j)]]

RECURSIVE GatherEdges(_)
\* MPI_Gather of lSize = NumEdges() and MPI_Gatherv of the first lSize entries
\* of edges_ (lines 98-118), of the participants from rank on
GatherEdges(rank) ==
    IF rank < size
    THEN SubSeq(io[rank].edges_, 1, NumEdges(io[rank])) \o GatherEdges(rank + 1)
    ELSE << >>

\* lines 131-141 and 147-152: the header, and one record (u+1, v+1) per
\* edge
PrintRecords(format, header, n, total_m, list) ==
    IF format = "EDGE_LIST"
    THEN (IF header THEN << <<"p", n, total_m>> >> ELSE << >>)
         \o [i \in 1..Len(list) |->
                <<"e", (list[i][1] + 1) % SIntModulus, (list[i][2] + 1) % SIntModulus>>]
    ELSE (IF header THEN <<n, total_m>> ELSE << >>)
         \o [i \in 1..(2 * Len(list)) |->
                IF i % 2 = 1
                THEN (list[(i + 1) \div 2][1] + 1) % SIntModulus
                ELSE (list[i \div 2][2] + 1) % SIntModulus]

\* who wrote the records of PrintRecords
PrintedBy(format, header, list, rank) ==
    LET unit == IF format = "EDGE_LIST" THEN 1 ELSE 2
        head == IF header THEN unit ELSE 0
    IN  [i \in 1..(head + unit * Len(list)) |->
            [rank |-> rank, what |-> IF i <= head THEN "header" ELSE "edge"]]

\* the stdio calls the routines make on the handle before closing it: one
\* fprintf per line, one fwrite per word
PrintCalls(format, header, list) ==
    Len(PrintRecords(format, header, 0, 0, list))

\* OutputEdges on a participant other than the root, single file: its edges
\* go into the gather (lines 98-118), and it returns
GatherPrintSend(rank) ==
    /\ config.output_single_file
    /\ rank # 0
    /\ pc[rank].at = "Idle"
    /\ gen[rank].state = "Finished"
    /\ pc' = [pc EXCEPT ![rank] = [@ EXCEPT !.at = "Done"]]
    /\ UNCHANGED <<config, size, gen, edges, io, kagen, files>>

\* OutputEdges on the root, single file: the gather completes once every
\* participant has contributed; the root sorts the edges, erases duplicates,
\* writes header and records and closes the file inside the switch (lines
\* 121-154), and calls fclose on the same handle again after it (line 157).
\* The handle fopen returns is not looked at.  fclose on a closed or null
\* handle is undefined: the build traps or goes on.
GatherPrintRoot ==
    /\ config.output_single_file
    /\ pc[0].at = "Idle"
    /\ gen[0].state = "Finished"
    /\ \A rank \in Ranks : rank # 0 => pc[rank].at = "Done"
    /\ LET list == UniqueEdges(SortEdges(GatherEdges(0)))
       IN  \E trap \in BOOLEAN :
             IF pc[0].openable
             THEN /\ files' = [files EXCEPT ![0] =
                                [ records |-> PrintRecords(config.output_format,
                                                           config.output_header,
                                                           config.n, Len(list), list),
                                  by |-> PrintedBy(config.output_format,
                                                   config.output_header, list, 0) ]]
                  /\ pc' = [pc EXCEPT ![0] =
                              [@ EXCEPT !.handle = "Closed",
                                        !.closes = @ + 2,
                                        !.closed_handle_uses = @ + 1,
                                        !.at = IF trap THEN "Crashed" ELSE "Done"]]
             ELSE /\ UNCHANGED files
                  /\ pc' = [pc EXCEPT ![0] =
                              [@ EXCEPT !.invalid_handle_uses =
                                           @ + PrintCalls(config.output_format,
                                                          config.output_header, list) + 2,
                                        !.at = IF trap THEN "Crashed" ELSE "Done"]]
    /\ UNCHANGED <<config, size, gen, edges, io, kagen>>

\* OutputEdges, one file per participant: Print enters MPI_Allreduce (line 169)
PrintEnter(rank) ==
    /\ ~config.output_single_file
    /\ pc[rank].at = "Idle"
    /\ gen[rank].state = "Finished"
    /\ pc' = [pc EXCEPT ![rank] = [@ EXCEPT !.at = "Allreduce"]]
    /\ UNCHANGED <<config, size, gen, edges, io, kagen, files>>

RECURSIVE SumOfSinkEdges(_)
\* MPI_SUM of edges_.size() over the participants from rank on
SumOfSinkEdges(rank) ==
    IF rank < size THEN Len(io[rank].edges_) + SumOfSinkEdges(rank + 1) ELSE 0

\* MPI_Allreduce (line 169) completes: every participant has total_num_edges
PrintAllreduce ==
    /\ \A rank \in Ranks : pc[rank].at = "Allreduce"
    /\ pc' = [rank \in Ranks |->
                [pc[rank] EXCEPT !.number_of_edges = SumOfSinkEdges(0) % SIntModulus,
                                 !.at = "Write"]]
    /\ UNCHANGED <<config, size, gen, edges, io, kagen, files>>

\* Print, lines 171-198: the participant writes header and records of its
\* own edges_ to its own file and closes it once.  The handle fopen returns
\* is not looked at.
PrintWrite(rank) ==
    /\ pc[rank].at = "Write"
    /\ IF pc[rank].openable
       THEN /\ files' = [files EXCEPT ![rank + 1] =
                          [ records |-> PrintRecords(config.output_format,
                                                     config.output_header, config.n,
                                                     pc[rank].number_of_edges,
                                                     io[rank].edges_),
                            by |-> PrintedBy(config.output_format, config.output_header,
                                             io[rank].edges_, rank) ]]
            /\ pc' = [pc EXCEPT ![rank] =
                        [@ EXCEPT !.handle = "Closed", !.closes = @ + 1, !.at = "Done"]]
       ELSE /\ UNCHANGED files
            /\ \E trap \in BOOLEAN :
                  pc' = [pc EXCEPT ![rank] =
                           [@ EXCEPT !.invalid_handle_uses =
                                        @ + PrintCalls(config.output_format,
                                                       config.output_header,
                                                       io[rank].edges_) + 1,
                                     !.at = IF trap THEN "Crashed" ELSE "Done"]]
    /\ UNCHANGED <<config, size, gen, edges, io, kagen>>

\* every grid, every adjacency or the coin's choice of them, collected by
\* sinks that keep the edges and written in either format, with or without
\* header, to one file or one per participant; at most one participant
\* cannot open output files
InitOutputEdges ==
    /\ size \in 1..MaxP
    /\ \E x \in 1..MaxDim, y \in 1..MaxDim, z \in 1..MaxDim, k \in {1, MaxK},
          periodic \in BOOLEAN, p \in {1, PDen},
          format \in {"EDGE_LIST", "BINARY_EDGE_LIST"},
          header \in BOOLEAN, single_file \in BOOLEAN :
          config = [ grid_x |-> x, grid_y |-> y, grid_z |-> z, n |-> x * y * z,
                     k |-> k, p |-> p, periodic |-> periodic,
                     seed |-> 0, self_loops |-> FALSE,
                     output_format |-> format, output_header |-> header,
                     output_single_file |-> single_file ]
    /\ gen = [rank \in 0..(size - 1) |-> Unstarted]
    /\ edges = [rank \in 0..(size - 1) |-> << >>]
    /\ io = [rank \in 0..(size - 1) |-> NewGeneratorIO(DefaultDistSize, TRUE)]
    /\ NoInterface
    /\ \E unable \in 0..size :
          pc = [rank \in 0..(size - 1) |-> [NotWriting EXCEPT !.openable = (rank # unable)]]
    /\ files = [f \in 0..size |-> EmptyFile]

NextOutputEdges ==
    \/ \E rank \in Ranks : Generate(rank) /\ UNCHANGED <<kagen, pc, files>>
    \/ \E rank \in Ranks : GatherPrintSend(rank)
    \/ GatherPrintRoot
    \/ \E rank \in Ranks : PrintEnter(rank)
    \/ PrintAllreduce
    \/ \E rank \in Ranks : PrintWrite(rank)

SpecOutputEdges == InitOutputEdges /\ [][NextOutputEdges]_vars

----------------------------------------------------------------------------
(* BuildCSR (library/kagen.h, lines 200-229).  The call and its argument   *)
(* graph, taken by value, are pc[0]; the result is pc[0].csr, with xadj    *)
(* and adjncy as functions on 0..(length - 1).                             *)

\* std::is_sorted (line 203)
IsSortedEdges(list) ==
    \A i \in DOMAIN list : i > 1 => ~EdgeLess(list[i], list[i - 1])

\* the edge lists of at most MaxLocalEdges edges with the given sources and
\* targets
EdgeLists(sources, targets) ==
    UNION {[1..len -> sources \X targets] : len \in 0..MaxLocalEdges}

\* the state of the loops of lines 215-226 before any edge
CsrStart(vertex_range, list) ==
    [ xadj |-> [i \in 0..((vertex_range[2] - vertex_range[1]) % SIntModulus) |-> 0],
      adjncy |-> [i \in 0..(Len(list) - 1) |-> 0],
      cur_vertex |-> 0,
      cur_edge |-> 0 ]

\* lines 219-221 and 224-226: while (upto > cur_vertex) xadj[++cur_vertex] =
\* cur_edge
CsrAdvance(loop, upto) ==
    [ loop EXCEPT
        !.xadj = [i \in DOMAIN @ |->
                    IF loop.cur_vertex < i /\ i <= upto THEN loop.cur_edge ELSE @[i]],
        !.cur_vertex = Max(@, upto) ]

RECURSIVE CsrEdges(_, _, _)
\* lines 218-223 for the first i edges of the list
CsrEdges(vertex_range, list, i) ==
    IF i = 0
    THEN CsrStart(vertex_range, list)
    ELSE LET before == CsrEdges(vertex_range, list, i - 1)
             from == list[i][1]
             to == list[i][2]
             advanced == CsrAdvance(before, (from - vertex_range[1]) % SIntModulus)
         IN  [ advanced EXCEPT
                 !.adjncy = [@ EXCEPT ![before.cur_edge] = to],
                 !.cur_edge = @ + 1 ]

\* lines 207-228 on a list that is taken as it is
CsrOf(vertex_range, list) ==
    LET num_local_nodes == (vertex_range[2] - vertex_range[1]) % SIntModulus
        done == CsrAdvance(CsrEdges(vertex_range, list, Len(list)), num_local_nodes)
    IN  [ xadj |-> done.xadj, adjncy |-> done.adjncy ]

\* mutant of BuildCSR: the edges are not sorted
BuildCSRUnsorted(graph) ==
    CsrOf(graph.vertex_range, graph.edges)

\* BuildCSR, lines 201-229
BuildCSR(graph) ==
    CsrOf(graph.vertex_range,
          IF IsSortedEdges(graph.edges) THEN graph.edges ELSE SortEdges(graph.edges))

\* the call BuildCSR(graph) returns
BuildCSRCall ==
    /\ pc[0].at = "BuildCSR"
    /\ pc' = [pc EXCEPT ![0] = [ at |-> "Done", graph |-> pc[0].graph,
                                 csr |-> BuildCSR(pc[0].graph) ]]
    /\ UNCHANGED <<config, size, gen, edges, io, kagen, files>>

\* one participant is about to call BuildCSR on a graph with a vertex range
\* [first, second) of at most MaxLocalNodes vertices and up to MaxLocalEdges
\* edges, in any order, with sources in the range and targets among the
\* first two vertices of the range
InitCSR ==
    /\ size = 1
    /\ config = [ grid_x |-> 1, grid_y |-> 1, grid_z |-> 1, n |-> 1, k |-> 1,
                  p |-> 0, periodic |-> FALSE, seed |-> 0, self_loops |-> FALSE ]
    /\ gen = [rank \in 0..(size - 1) |-> Unstarted]
    /\ edges = [rank \in 0..(size - 1) |-> << >>]
    /\ io = [rank \in 0..(size - 1) |-> NewGeneratorIO(DefaultDistSize, FALSE)]
    /\ NoInterface
    /\ files = [f \in 0..size |-> EmptyFile]
    /\ \E first \in 0..1, num \in 0..MaxLocalNodes :
          \E list \in EdgeLists(first..(first + num - 1), first..(first + 1)) :
              pc = [rank \in 0..(size - 1) |->
                      [ at |-> "BuildCSR",
                        graph |-> [ edges |-> list,
                                    vertex_range |-> <<first, first + num>> ] ]]

NextCSR == BuildCSRCall

SpecCSR == InitCSR /\ [][NextCSR]_vars

----------------------------------------------------------------------------
(* PrintAdvancedStatistics (kagen/tools/statistics.cpp, lines 237-289) on  *)
(* one participant, up to the degree bins.  The call, its arguments and    *)
(* what it has computed are pc[0]; with one participant the reductions     *)
(* return the local values.                                                *)

\* std::numeric_limits<SInt>::digits (line 134) of the model's word
BinCount == 30

\* the SInt that std::log2(deg) becomes (line 139), for deg >= 1
Log2Floor(deg) == CHOOSE b \in 0..BinCount : 2^b <= deg /\ deg < 2^(b + 1)

\* the call has not computed anything yet.  front_of_empty counts the reads
\* of edges.front() on an empty list, log2_of_zero the degrees 0 handed to
\* std::log2.
StatisticsCall(list, vertex_range) ==
    [ at |-> "Sort", edges |-> list, vertex_range |-> vertex_range,
      min |-> 0, sum |-> 0, max |-> 0,
      bins |-> [b \in 0..(BinCount - 1) |-> 0],
      front_of_empty |-> 0, log2_of_zero |-> 0 ]

\* lines 239-241
PrintAdvancedStatisticsSort ==
    /\ pc[0].at = "Sort"
    /\ pc' = [pc EXCEPT ![0] =
                [@ EXCEPT !.edges = IF IsSortedEdges(@) THEN @ ELSE SortEdges(@),
                          !.at = "DegreeStatistics"]]
    /\ UNCHANGED <<config, size, gen, edges, io, kagen, files>>

\* the lambda update, lines 100-104
DegreeUpdate(loop, deg) ==
    [ loop EXCEPT !.min = Min(@, deg), !.max = Max(@, deg),
                  !.sum = (@ + deg) % SIntModulus ]

RECURSIVE DegreeStatisticsEdges(_, _, _)
\* lines 93-117 for the first i edges of a list whose front() is cur_from
DegreeStatisticsEdges(list, cur_from, i) ==
    IF i = 0
    THEN [ min |-> SIntModulus - 1, sum |-> 0, max |-> 0,
           cur_from |-> cur_from, cur_degree |-> 0 ]
    ELSE LET before == DegreeStatisticsEdges(list, cur_from, i - 1)
             from == list[i][1]
         IN  IF from = before.cur_from
             THEN [before EXCEPT !.cur_degree = @ + 1]
             ELSE LET updated == DegreeUpdate(before, before.cur_degree)
                  IN  [ updated EXCEPT
                          !.cur_degree = 1,
                          !.min = IF (before.cur_from + 1) % SIntModulus # from
                                  THEN 0 ELSE @,
                          !.cur_from = from ]

\* lines 93-118: min, sum and max of the local degrees
DegreeStatistics(list, cur_from) ==
    LET loop == DegreeStatisticsEdges(list, cur_from, Len(list))
    IN  DegreeUpdate(loop, loop.cur_degree)

\* ReduceDegreeStatistics, lines 90-129.  On an empty list edges.front()
\* (line 97) is undefined: the build traps, or cur_from is any value, which
\* is not looked at again.
ReduceDegreeStatisticsCall ==
    /\ pc[0].at = "DegreeStatistics"
    /\ IF pc[0].edges # << >>
       THEN LET result == DegreeStatistics(pc[0].edges, pc[0].edges[1][1])
            IN  pc' = [pc EXCEPT ![0] =
                         [@ EXCEPT !.min = result.min, !.sum = result.sum,
                                   !.max = result.max, !.at = "DegreeBins"]]
       ELSE \E trap \in BOOLEAN :
              LET result == DegreeStatistics(pc[0].edges, 0)
              IN  pc' = [pc EXCEPT ![0] =
                           [@ EXCEPT !.min = result.min, !.sum = result.sum,
                                     !.max = result.max,
                                     !.front_of_empty = @ + 1,
                                     !.at = IF trap THEN "Crashed" ELSE "DegreeBins"]]
    /\ UNCHANGED <<config, size, gen, edges, io, kagen, files>>

\* the lambda yield, lines 138-141, for deg >= 1
BinsYield(loop, deg) ==
    [loop EXCEPT !.bins = [@ EXCEPT ![Log2Floor(deg) + 1] = @ + 1]]

\* lines 149-151 and 155-157: while (++cur_from < upto) ++bins[0]
BinsSkip(loop, upto) ==
    [ loop EXCEPT
        !.bins = [@ EXCEPT ![0] = @ + Max(0, upto - loop.cur_from - 1)],
        !.cur_from = Max(@ + 1, upto) ]

RECURSIVE BinsEdges(_, _, _)
\* lines 134-153 for the first i edges of a list whose front() is cur_from
BinsEdges(list, cur_from, i) ==
    IF i = 0
    THEN [ bins |-> [b \in 0..(BinCount - 1) |-> 0],
           cur_from |-> cur_from, cur_degree |-> 0 ]
    ELSE LET before == BinsEdges(list, cur_from, i - 1)
             from == list[i][1]
         IN  IF from = before.cur_from
             THEN [before EXCEPT !.cur_degree = @ + 1]
             ELSE BinsSkip([BinsYield(before, before.cur_degree) EXCEPT
                              !.cur_degree = 1],
                           from)

\* lines 134-157 on a list that is not empty
DegreeBins(list, vertex_range) ==
    LET loop == BinsEdges(list, list[1][1], Len(list))
    IN  BinsSkip(BinsYield(loop, loop.cur_degree), vertex_range[2]).bins

\* ComputeDegreeBins, lines 131-163.  On an empty list edges.front() (line
\* 135) is undefined and gives any cur_from, and yield(0) (line 154) turns
\* std::log2(0) = -infinity into an SInt, which is undefined as well: the build
\* traps, or it counts in an entry outside the bins or in bin 0; the vertices
\* from cur_from + 1 on are then counted in bin 0 (lines 155-157).
ComputeDegreeBinsCall ==
    /\ pc[0].at = "DegreeBins"
    /\ IF pc[0].edges # << >>
       THEN pc' = [pc EXCEPT ![0] =
                     [@ EXCEPT !.bins = DegreeBins(pc[0].edges, pc[0].vertex_range),
                               !.at = "Done"]]
       ELSE \E trap \in BOOLEAN, cur_from \in 0..pc[0].vertex_range[2],
               inside \in BOOLEAN :
              LET start == [ bins |-> [b \in 0..(BinCount - 1) |->
                                         IF inside /\ b = 0 THEN 1 ELSE 0],
                             cur_from |-> cur_from, cur_degree |-> 0 ]
              IN  pc' = [pc EXCEPT ![0] =
                           [@ EXCEPT !.bins = BinsSkip(start, pc[0].vertex_range[2]).bins,
                                     !.front_of_empty = @ + 1,
                                     !.log2_of_zero = @ + 1,
                                     !.at = IF trap THEN "Crashed" ELSE "Done"]]
    /\ UNCHANGED <<config, size, gen, edges, io, kagen, files>>

\* one participant is about to call PrintAdvancedStatistics with a vertex
\* range [first, second) of at most MaxLocalNodes vertices and up to
\* MaxLocalEdges edges, in any order, with sources in the range
InitStatistics ==
    /\ size = 1
    /\ config = [ grid_x |-> 1, grid_y |-> 1, grid_z |-> 1, n |-> 1, k |-> 1,
                  p |-> 0, periodic |-> FALSE, seed |-> 0, self_loops |-> FALSE ]
    /\ gen = [rank \in 0..(size - 1) |-> Unstarted]
    /\ edges = [rank \in 0..(size - 1) |-> << >>]
    /\ io = [rank \in 0..(size - 1) |-> NewGeneratorIO(DefaultDistSize, FALSE)]
    /\ NoInterface
    /\ files = [f \in 0..size |-> EmptyFile]
    /\ \E first \in 0..1, num \in 0..MaxLocalNodes :
          \E list \in EdgeLists(first..(first + num - 1), {first}) :
              pc = [rank \in 0..(size - 1) |->
                      StatisticsCall(list, <<first, first + num>>)]

NextStatistics ==
    \/ PrintAdvancedStatisticsSort
    \/ ReduceDegreeStatisticsCall
    \/ ComputeDegreeBinsCall

SpecStatistics == InitStatistics /\ [][NextStatistics]_vars

----------------------------------------------------------------------------
(* The locality statistics of PrintAdvancedStatistics (statistics.cpp,     *)
(* lines 254-255) on one participant: ComputeEdgeLocalicty and             *)
(* ComputeNumberOfGhostNodes on the same edge list and vertex range.       *)

\* the predicate of std::count_if, line 167, which counts
\* num_local_cut_edges
IsCutEdge(edge, vertex_range) ==
    edge[1] < vertex_range[1] \/ edge[2] >= vertex_range[2]

\* ghost_nodes after the loop of lines 183-187
GhostNodes(list, vertex_range) ==
    { list[i][2] : i \in {j \in DOMAIN list :
                             \/ list[j][2] < vertex_range[1]
                             \/ list[j][2] >= vertex_range[2]} }

\* ComputeEdgeLocalicty, lines 165-178: the two counts it reduces
ComputeEdgeLocalictyCall ==
    /\ pc[0].at = "Locality"
    /\ pc' = [pc EXCEPT ![0] =
                [@ EXCEPT !.num_local_cut_edges =
                              Cardinality({i \in DOMAIN pc[0].edges :
                                  IsCutEdge(pc[0].edges[i], pc[0].vertex_range)}),
                          !.num_local_edges = Len(pc[0].edges),
                          !.at = "GhostNodes"]]
    /\ UNCHANGED <<config, size, gen, edges, io, kagen, files>>

\* ComputeNumberOfGhostNodes, lines 180-194
ComputeNumberOfGhostNodesCall ==
    /\ pc[0].at = "GhostNodes"
    /\ pc' = [pc EXCEPT ![0] =
                [@ EXCEPT !.ghost_nodes = GhostNodes(pc[0].edges, pc[0].vertex_range),
                          !.at = "Done"]]
    /\ UNCHANGED <<config, size, gen, edges, io, kagen, files>>

\* one participant is about to compute the locality statistics of a list of
\* up to MaxCutEdges edges whose endpoints lie in, below or above its vertex
\* range [first, second)
InitLocality ==
    /\ size = 1
    /\ config = [ grid_x |-> 1, grid_y |-> 1, grid_z |-> 1, n |-> 1, k |-> 1,
                  p |-> 0, periodic |-> FALSE, seed |-> 0, self_loops |-> FALSE ]
    /\ gen = [rank \in 0..(size - 1) |-> Unstarted]
    /\ edges = [rank \in 0..(size - 1) |-> << >>]
    /\ io = [rank \in 0..(size - 1) |-> NewGeneratorIO(DefaultDistSize, FALSE)]
    /\ NoInterface
    /\ files = [f \in 0..size |-> EmptyFile]
    /\ \E first \in 0..1, num \in 0..MaxLocalNodes :
          \E list \in UNION {[1..len -> (0..(first + num)) \X (0..(first + num))] :
                                len \in 0..MaxCutEdges} :
              pc = [rank \in 0..(size - 1) |->
                      [ at |-> "Locality", edges |-> list,
                        vertex_range |-> <<first, first + num>>,
                        num_local_cut_edges |-> 0, num_local_edges |-> 0,
                        ghost_nodes |-> {} ]]

NextLocality ==
    \/ ComputeEdgeLocalictyCall
    \/ ComputeNumberOfGhostNodesCall

SpecLocality == InitLocality /\ [][NextLocality]_vars

----------------------------------------------------------------------------
(* Specification: the edge seeds of GenerateEdge.  The word is narrowed to *)
(* SeedBits bits, so that the product min(u,v) * X*Y*Z leaves the word for *)
(* vertex counts within the bounds, as it leaves 64 bits for X*Y*Z > 2^32. *)

SeedWord == 2^SeedBits

\* Generate() is running on the one participant, and has made no call of
\* GenerateEdge yet; first and latest hold the first and the latest call
Generating == [ state |-> "Generating", first |-> << >>, latest |-> << >> ]

\* GenerateEdge, lines 233-235: the edge seed of the pair
GenerateEdgeSeed(source, target) ==
    /\ gen[0].state = "Generating"
    /\ LET call == [ source |-> source, target |-> target,
                     edge_seed |-> EdgeSeedWord(SeedWord, Dimensions(config),
                                                source, target) ]
       IN  gen' = [gen EXCEPT ![0] =
                     [@ EXCEPT !.first = IF @ = << >> THEN <<call>> ELSE @,
                               !.latest = <<call>>]]
    /\ UNCHANGED <<config, size, edges, io, kagen, pc, files>>

\* every grid of at most MaxSeedN vertices, a vertex count the word holds
InitSeed ==
    /\ size = 1
    /\ \E x \in 1..MaxSeedN, y \in 1..MaxSeedN, z \in 1..MaxSeedN :
          /\ x * y * z <= MaxSeedN
          /\ x * y * z < SeedWord
          /\ config = [ grid_x |-> x, grid_y |-> y, grid_z |-> z, n |-> x * y * z,
                        k |-> 1, p |-> PDen, periodic |-> FALSE,
                        seed |-> 0, self_loops |-> FALSE ]
    /\ gen = [rank \in 0..(size - 1) |-> Generating]
    /\ edges = [rank \in 0..(size - 1) |-> << >>]
    /\ io = [rank \in 0..(size - 1) |-> NewGeneratorIO(DefaultDistSize, FALSE)]
    /\ NoInterface
    /\ NoOutput

NextSeed ==
    \E source \in 0..(config.n - 1), target \in 0..(config.n - 1) :
        GenerateEdgeSeed(source, target)

SpecSeed == InitSeed /\ [][NextSeed]_vars

----------------------------------------------------------------------------
(* The gathered result and the lattice *)

Grid == Dimensions(config)

Finished(rank) == gen[rank].state = "Finished"

AllFinished == \A rank \in Ranks : Finished(rank)

\* the pairs participant rank handed to the edge callback
Emitted(rank) == {edges[rank][i] : i \in DOMAIN edges[rank]}

RECURSIVE GatherFrom(_)
\* MPI_Gatherv: the participants' edge lists one after the other, by rank
GatherFrom(rank) ==
    IF rank < size THEN edges[rank] \o GatherFrom(rank + 1) ELSE << >>

Gathered == GatherFrom(0)

BagOfSeq(s) ==
    [e \in {s[i] : i \in DOMAIN s} |-> Cardinality({i \in DOMAIN s : s[i] = e})]

\* how often the ordered pair e occurs in the sequence s
Occurrences(s, e) == Cardinality({i \in DOMAIN s : s[i] = e})

\* k = d^3 for an integer d > 0
IsCube(k) == \E d \in 1..k : d * d * d = k

NumVertices == config.grid_x * config.grid_y * config.grid_z

Vertices == 0..(NumVertices - 1)

\* the chunk whose id range [OffsetForChunk(c), OffsetForChunk(c+1)) holds v
ChunkOfVertex(g, v) ==
    CHOOSE c \in 0..(g.total_chunks - 1) :
        OffsetForChunk(g, c) <= v /\ v < OffsetForChunk(g, c + 1)

\* the lattice cell of vertex v: the first cell of its chunk (lines 287-289)
\* plus its position in the chunk (lines 137-139)
Coord(g, v) ==
    LET chunk == ChunkOfVertex(g, v)
        c == Decode(g, chunk)
        xs == ChunkXs(g, c.x)
        ys == ChunkYs(g, c.y)
        local_vertex == v - OffsetForChunk(g, chunk)
    IN  [ x |-> c.x * g.x_per_chunk + Min(c.x, g.remaining_x) + (local_vertex % xs),
          y |-> c.y * g.y_per_chunk + Min(c.y, g.remaining_y)
                + ((local_vertex \div xs) % ys),
          z |-> c.z * g.z_per_chunk + Min(c.z, g.remaining_z)
                + (local_vertex \div (xs * ys)) ]

\* a and b are one step apart on an axis of the given length
OneStep(a, b, length, periodic) ==
    \/ b = a + 1
    \/ a = b + 1
    \/ periodic /\ ((a + 1) % length = b \/ (b + 1) % length = a)

\* u and v are axis neighbours of the lattice
LatticeAdjacent(g, u, v) ==
    LET a == Coord(g, u)
        b == Coord(g, v)
    IN  \/ OneStep(a.x, b.x, g.total_x, g.periodic) /\ a.y = b.y /\ a.z = b.z
        \/ a.x = b.x /\ OneStep(a.y, b.y, g.total_y, g.periodic) /\ a.z = b.z
        \/ a.x = b.x /\ a.y = b.y /\ OneStep(a.z, b.z, g.total_z, g.periodic)

\* the vertices participant rank owns: [start_node_, end_node_)
Owned(rank) == {v \in Vertices : gen[rank].start_node <= v /\ v < gen[rank].end_node}

RECURSIVE CellsOfChunks(_, _, _)
\* the lattice cells xs*ys*zs of num consecutive chunks from chunk first on
CellsOfChunks(g, first, num) ==
    IF num = 0
    THEN 0
    ELSE LET c == Decode(g, first)
         IN  ChunkXs(g, c.x) * ChunkYs(g, c.y) * ChunkZs(g, c.z)
             + CellsOfChunks(g, first + 1, num - 1)

\* the inclusive range GetVertexRange() hands to the caller, as a set
RangeSet(rank) == GetVertexRange(rank)[1]..GetVertexRange(rank)[2]

\* the ordered pairs left by the root's sort and unique
DistinctPairs == {Gathered[i] : i \in DOMAIN Gathered}

\* the distinct neighbours of u in the gathered result
Neighbours(u) ==
    {e[2] : e \in {f \in DistinctPairs : f[1] = u}}
    \cup {e[1] : e \in {f \in DistinctPairs : f[2] = u}}

\* the axis directions in which the cell a has no neighbour inside the grid
BoundaryDirections(g, a) ==
    BoolToInt(a.x = 0) + BoolToInt(a.x = g.total_x - 1)
    + BoolToInt(a.y = 0) + BoolToInt(a.y = g.total_y - 1)
    + BoolToInt(a.z = 0) + BoolToInt(a.z = g.total_z - 1)

InvalidConfig ==
    \/ config.k = 0
    \/ config.p < 0
    \/ config.p > PDen
    \/ NumVertices = 0
    \/ config.n # NumVertices

----------------------------------------------------------------------------
(* Properties *)

\* C1: for k = d^3, every lattice adjacency {u,v} gets the same decision from both
\* endpoints, and (u,v) is emitted by the owner of u iff (v,u) is emitted by the
\* owner of v.
EmitAgreement ==
    IsCube(config.k) =>
        \A r1 \in Ranks, r2 \in Ranks :
            Finished(r1) /\ Finished(r2) =>
                \A u \in Owned(r1), v \in Owned(r2) :
                    LatticeAdjacent(Grid, u, v) =>
                        /\ Accepts(Grid, u, v) <=> Accepts(Grid, v, u)
                        /\ (<<u, v>> \in Emitted(r1)) <=> (<<v, u>> \in Emitted(r2))

\* two participants with p = 1/2 share one accepted and one rejected adjacency
EmitAgreementWitness ==
    /\ IsCube(config.k)
    /\ config.p = 1
    /\ \E r1 \in Ranks, r2 \in Ranks :
          /\ r1 # r2 /\ Finished(r1) /\ Finished(r2)
          /\ \E u \in Owned(r1), v \in Owned(r2) :
                /\ LatticeAdjacent(Grid, u, v)
                /\ <<u, v>> \in Emitted(r1) /\ <<v, u>> \in Emitted(r2)
          /\ \E u \in Owned(r1), v \in Owned(r2) :
                /\ LatticeAdjacent(Grid, u, v)
                /\ <<u, v>> \notin Emitted(r1) /\ <<v, u>> \notin Emitted(r2)

\* C2: in the gathered result every emitted unordered edge {u,v} has exactly one
\* directed representation: never both (u,v) and (v,u), never twice; neither
\* among the callback's pairs nor after the root's sort and unique.
SingleEmission ==
    AllFinished =>
        /\ \A e \in DistinctPairs :
              Occurrences(Gathered, e)
              + (IF e[1] # e[2] THEN Occurrences(Gathered, <<e[2], e[1]>>) ELSE 0) = 1
        /\ \A e \in DistinctPairs : e[1] # e[2] => <<e[2], e[1]>> \notin DistinctPairs

\* C3: for a fixed configuration the gathered edge multiset of P participants is
\* the one a single participant emits, for every P.
DeterminismAcrossP ==
    AllFinished =>
        BagOfSeq(Gathered)
            = BagOfSeq(GenerateChunks(Grid, StartChunk(config.k, 1, 0), 0,
                                      NumChunks(config.k, 1, 0)))

\* several participants, chunks not dividing evenly, two of them emitting
DeterminismWitness ==
    /\ AllFinished
    /\ size > 1
    /\ config.k % size # 0
    /\ \E r1 \in Ranks, r2 \in Ranks :
          r1 # r2 /\ edges[r1] # << >> /\ edges[r2] # << >>

\* C4: after Generate() on all participants the inclusive ranges of
\* GetVertexRange() are pairwise disjoint and their union is [0, X*Y*Z).
PartitionCoverage ==
    AllFinished =>
        /\ \A r1 \in Ranks, r2 \in Ranks :
              r1 # r2 => RangeSet(r1) \cap RangeSet(r2) = {}
        /\ UNION {RangeSet(rank) : rank \in Ranks} = Vertices

\* C5: with self_loops = false no pair (u,u) is emitted.
NoSelfLoops ==
    ~config.self_loops =>
        \A rank \in Ranks : \A e \in Emitted(rank) : e[1] # e[2]

\* C6: for k = d^3, OffsetForChunk(0) = 0, OffsetForChunk(k) = X*Y*Z and
\* consecutive offsets differ by the cells xs*ys*zs of the chunk, where the first
\* X mod d (Y mod d, Z mod d) chunks of an axis are one cell longer; so a
\* participant's node range holds the cells of the chunks it owns.
ChunkOffsetInvariant ==
    IsCube(config.k) =>
        LET d == Cbrt(config.k)
            AxisLen(total, i) == (total \div d) + BoolToInt(i < total % d)
        IN  /\ OffsetForChunk(Grid, 0) = 0
            /\ OffsetForChunk(Grid, config.k) = NumVertices
            /\ \A c \in 0..(config.k - 1) :
                  OffsetForChunk(Grid, c + 1) - OffsetForChunk(Grid, c)
                      = AxisLen(config.grid_x, c % d)
                        * AxisLen(config.grid_y, (c \div d) % d)
                        * AxisLen(config.grid_z, c \div (d * d))
            /\ \A rank \in Ranks :
                  Finished(rank) =>
                      gen[rank].end_node - gen[rank].start_node
                          = CellsOfChunks(Grid, gen[rank].start_chunk,
                                          gen[rank].num_chunks)

\* a finished participant owning cells of a grid whose x axis does not divide
\* evenly into the d > 1 chunks per dimension
ChunkOffsetWitness ==
    /\ IsCube(config.k)
    /\ Grid.chunks_per_dim > 1
    /\ Grid.remaining_x > 0
    /\ \E rank \in Ranks : Finished(rank) /\ gen[rank].num_nodes > 0

\* C7: with p = 1 every vertex has 6 distinct neighbours when periodic, and 6
\* minus the number of its out-of-grid axis directions when not periodic.
GridAdjacencyBound ==
    AllFinished /\ IsCube(config.k) /\ config.p = PDen =>
        \A u \in Vertices :
            Cardinality(Neighbours(u))
                = IF config.periodic
                  THEN 6
                  ELSE 6 - BoundaryDirections(Grid, Coord(Grid, u))

\* C8: for a chunk count that is no perfect cube no chunk is generated, no edge
\* is emitted and no vertex id >= X*Y*Z is produced.
RejectsNonCube ==
    ~IsCube(config.k) =>
        \A rank \in Ranks :
            /\ gen[rank].num_chunks = 0
            /\ edges[rank] = << >>
            /\ gen[rank].start_node <= NumVertices
            /\ gen[rank].end_node <= NumVertices

\* C9: with an invalid configuration (k = 0, p outside [0,1], n = 0, dimensions
\* not multiplying to n) Generate() never runs and no edge is emitted.
InvalidConfigFatal ==
    InvalidConfig =>
        \A rank \in Ranks : ~Finished(rank) /\ edges[rank] = << >>

\* C10 as amended: participant rank owns floor(k/P) + (rank < k mod P ? 1 : 0)
\* chunks, the first being rank*floor(k/P) + min(rank, k mod P); the owned
\* chunk ranges follow one another from chunk 0.
ChunkOwnership ==
    \A rank \in Ranks :
        Finished(rank) =>
            /\ gen[rank].num_chunks
                  = (config.k \div size) + BoolToInt(rank < config.k % size)
            /\ gen[rank].start_chunk
                  = rank * (config.k \div size) + Min(rank, config.k % size)
            /\ rank = 0 => gen[rank].start_chunk = 0
            /\ rank = size - 1 =>
                  gen[rank].start_chunk + gen[rank].num_chunks = config.k
            /\ \A next \in Ranks :
                  next = rank + 1 /\ Finished(next) =>
                      gen[next].start_chunk
                          = gen[rank].start_chunk + gen[rank].num_chunks

\* a finished participant that is neither the first nor past the leftover
\* chunks
ChunkOwnershipWitness ==
    \E rank \in Ranks :
        Finished(rank) /\ 0 < rank /\ rank < config.k % size

\* C10 as stated: the first owned chunk is rank*num + min(rank, k mod P).
ChunkOwnershipAsStated ==
    \A rank \in Ranks :
        Finished(rank) =>
            /\ gen[rank].num_chunks
                  = (config.k \div size) + BoolToInt(rank < config.k % size)
            /\ gen[rank].start_chunk
                  = rank * gen[rank].num_chunks + Min(rank, config.k % size)

\* C11: every Generate3DGrid call of the interface constructs a generator object
\* of its own, invokes Generate() on it exactly once and reads GetVertexRange()
\* once, after Generate() has returned; between calls no generator exists, so none
\* is used by two calls.
GeneratorLifecycle ==
    \A rank \in Ranks :
        LET k == kagen[rank]
        IN  /\ k.objects = k.calls + (IF k.pc = "Idle" THEN 0 ELSE 1)
            /\ k.reads > 0 => k.generates = 1
            /\ k.pc = "Idle" =>
                  /\ gen[rank].state = "NoObject"
                  /\ k.calls > 0 => k.generates = 1 /\ k.reads = 1
            /\ k.pc = "Constructed" =>
                  gen[rank].state = "Unstarted" /\ k.generates = 0 /\ k.reads = 0
            /\ k.pc = "Generated" =>
                  Finished(rank) /\ k.generates = 1 /\ k.reads = 0

\* a participant has returned from its second call, another is inside a call
GeneratorLifecycleWitness ==
    \E r1 \in Ranks, r2 \in Ranks :
        /\ kagen[r1].calls > 1 /\ kagen[r1].pc = "Idle"
        /\ kagen[r2].pc = "Generated" /\ edges[r2] # << >>

\* C12: GetVertexRange() is (OffsetForChunk(start_chunk),
\* OffsetForChunk(end_chunk) - 1), and the list the interface returns is this pair
\* followed by the emitted edges in emission order.
VertexRangeConvention ==
    \A rank \in Ranks :
        LET start_chunk == StartChunk(config.k, size, rank)
            end_chunk == start_chunk + NumChunks(config.k, size, rank)
            range == << OffsetForChunk(Grid, start_chunk),
                        OffsetForChunk(Grid, end_chunk) - 1 >>
        IN  /\ Finished(rank) => GetVertexRange(rank) = range
            /\ kagen[rank].calls > 0 /\ kagen[rank].pc = "Idle" =>
                  /\ Len(kagen[rank].result) = 1 + Len(edges[rank])
                  /\ kagen[rank].result[1] = range
                  /\ \A i \in DOMAIN edges[rank] :
                        kagen[rank].result[i + 1] = edges[rank][i]

\* a returned list with edges whose range holds more than one vertex
VertexRangeWitness ==
    \E rank \in Ranks :
        /\ kagen[rank].calls > 0 /\ kagen[rank].pc = "Idle"
        /\ Len(kagen[rank].result) > 1
        /\ kagen[rank].result[1][1] < kagen[rank].result[1][2]

\* the records of file f written by participant rank, in file order
WrittenBy(f, rank) ==
    LET at == {i \in DOMAIN files[f].by : files[f].by[i].rank = rank}
        nth(j) == CHOOSE i \in at : Cardinality({h \in at : h < i}) = j - 1
    IN  [j \in 1..Cardinality(at) |->
            [record |-> files[f].records[nth(j)], what |-> files[f].by[nth(j)].what]]

\* participant rank has passed its append of edge records
HasAppended(rank) ==
    \/ pc[rank].at = "Done"
    \/ pc[rank].at = "Barrier" /\ pc[rank].pe >= rank

\* records per header and per edge: a text line, or two words
RecordLen == IF config.output_format = "EDGE_LIST" THEN 1 ELSE 2

\* C13: a participant that can open its file and has passed its append has
\* written a header iff output_header is set (and, in single-file mode, it is
\* the root), followed by one record (u+1, v+1) per edge of its list, in list
\* order, and nothing else.
EdgeListLayout ==
    \A rank \in Ranks :
        HasAppended(rank) /\ pc[rank].openable =>
            LET written == WrittenBy(OutputFileOf(rank), rank)
                header == IF config.output_header
                             /\ (rank = 0 \/ ~config.output_single_file)
                          THEN RecordLen ELSE 0
            IN  /\ Len(written) = header + RecordLen * Len(edges[rank])
                /\ \A i \in DOMAIN written :
                      written[i].what = IF i <= header THEN "header" ELSE "edge"
                /\ config.output_format = "EDGE_LIST" /\ header > 0 =>
                      written[1].record[1] = "p"
                /\ \A i \in DOMAIN edges[rank] :
                      IF config.output_format = "EDGE_LIST"
                      THEN written[header + i].record
                               = <<"e", edges[rank][i][1] + 1, edges[rank][i][2] + 1>>
                      ELSE /\ written[header + 2 * i - 1].record = edges[rank][i][1] + 1
                           /\ written[header + 2 * i].record = edges[rank][i][2] + 1

\* a per-rank binary file and a single text file, each with header and edges
EdgeListLayoutWitness ==
    /\ config.output_header
    /\ \E rank \in Ranks :
          /\ pc[rank].at = "Done" /\ pc[rank].openable
          /\ Len(edges[rank]) > 1
          /\ Len(files[OutputFileOf(rank)].records) > RecordLen

\* C14: in single-file mode the root has created the file before anyone appends,
\* a requested header precedes every edge record, no two participants have the
\* file open for appending at once, and the edge records lie in rank order.
SingleFileProtocol ==
    config.output_single_file =>
        LET by == files[0].by
        IN  /\ \A rank \in Ranks :
                  pc[rank].at = "Appending" \/ HasAppended(rank) =>
                      pc[0].at \notin {"Idle", "Create"}
            /\ config.output_header /\ by # << >> =>
                  by[1].what = "header" /\ by[1].rank = 0
            /\ Cardinality({rank \in Ranks : pc[rank].at = "Appending"}) <= 1
            /\ \A i \in DOMAIN by, j \in DOMAIN by :
                  i < j /\ by[i].what = "edge" /\ by[j].what = "edge" =>
                      by[i].rank <= by[j].rank

\* the participants that write to file f
WritersOf(f) == IF config.output_single_file THEN Ranks ELSE {f - 1}

\* the files the run writes
OutputFiles == IF config.output_single_file THEN {0} ELSE 1..size

\* every writer of file f could open it and is past its append
FileComplete(f) ==
    \A rank \in WritersOf(f) : HasAppended(rank) /\ pc[rank].openable

\* the edge records file f holds
EdgeRecordCount(f) ==
    Cardinality({i \in DOMAIN files[f].by : files[f].by[i].what = "edge"}) \div RecordLen

\* C15: a header's first number is the vertex count X*Y*Z of the graph, and once
\* the file is complete its second number is the number of edge records in the
\* file.
HeaderConsistency ==
    \A f \in OutputFiles :
        LET headers == {i \in DOMAIN files[f].by : files[f].by[i].what = "header"}
        IN  headers # {} =>
                LET h == CHOOSE i \in headers : \A j \in headers : i <= j
                    number_of_nodes == IF config.output_format = "EDGE_LIST"
                                       THEN files[f].records[h][2]
                                       ELSE files[f].records[h]
                    number_of_edges == IF config.output_format = "EDGE_LIST"
                                       THEN files[f].records[h][3]
                                       ELSE files[f].records[h + 1]
                IN  /\ number_of_nodes = NumVertices
                    /\ FileComplete(f) => number_of_edges = EdgeRecordCount(f)

\* a binary file read back: an optional header of two words, then pairs of
\* words, each less 1
DecodeBinary(words, header) ==
    LET skip == IF header THEN 2 ELSE 0
    IN  [i \in 1..((Len(words) - skip) \div 2) |->
            << (words[skip + 2 * i - 1] - 1) % SIntModulus,
               (words[skip + 2 * i] - 1) % SIntModulus >>]

\* C16: a complete binary file, read back as an optional header and pairs of
\* words less 1, is the multiset of the edges handed to its writers: those of
\* the participant (per-rank mode), or of all participants (single-file mode).
BinaryRoundTrip ==
    config.output_format = "BINARY_EDGE_LIST" =>
        \A f \in OutputFiles :
            FileComplete(f) =>
                /\ Len(files[f].records) % 2 = 0
                /\ config.output_header => Len(files[f].records) >= 2
                /\ BagOfSeq(DecodeBinary(files[f].records, config.output_header))
                      = BagOfSeq(IF config.output_single_file
                                 THEN Gathered
                                 ELSE edges[f - 1])

\* C20: no stdio call is made on a handle whose fopen failed, and a
\* participant whose output file could not be opened has surfaced an error.
IoErrorSurfaced ==
    \A rank \in Ranks :
        /\ pc[rank].invalid_handle_uses = 0
        /\ ~pc[rank].openable
              /\ (pc[rank].at \in {"Appending", "Crashed", "Failed"} \/ HasAppended(rank))
              => pc[rank].error

\* the emissions of participant rank whose source is u, in emission order
EmissionsFrom(rank, u) ==
    LET at == {i \in DOMAIN edges[rank] : edges[rank][i][1] = u}
        nth(j) == CHOOSE i \in at : Cardinality({h \in at : h < i}) = j - 1
    IN  [j \in 1..Cardinality(at) |-> edges[rank][nth(j)]]

\* the j-th smallest element of a set of numbers
Nth(S, j) == CHOOSE d \in S : Cardinality({c \in S : c < d}) = j - 1

\* C19: the callback sequence of a participant has every source in its own
\* range [start_node, end_node), non-decreasing source ids, sources of owned
\* chunks in ascending chunk id, and for one source the targets of the accepted
\* directions in the order Right, Left, Up, Down, Front, Back.
EmissionOrder ==
    \A rank \in Ranks :
        Finished(rank) =>
            LET e == edges[rank]
                order == <<"Right", "Left", "Up", "Down", "Front", "Back">>
                chunkOf(u) == CHOOSE c \in 0..(config.k - 1) :
                                  OffsetForChunk(Grid, c) <= u
                                  /\ u < OffsetForChunk(Grid, c + 1)
            IN  /\ \A i \in DOMAIN e :
                      /\ gen[rank].start_node <= e[i][1]
                      /\ e[i][1] < gen[rank].end_node
                      /\ \E c \in 0..(config.k - 1) :
                            /\ OffsetForChunk(Grid, c) <= e[i][1]
                            /\ e[i][1] < OffsetForChunk(Grid, c + 1)
                      /\ gen[rank].start_chunk <= chunkOf(e[i][1])
                      /\ chunkOf(e[i][1]) < gen[rank].start_chunk + gen[rank].num_chunks
                /\ \A i \in DOMAIN e :
                      i < Len(e) =>
                          /\ e[i][1] <= e[i + 1][1]
                          /\ chunkOf(e[i][1]) <= chunkOf(e[i + 1][1])
                /\ \A u \in {e[i][1] : i \in DOMAIN e} :
                      LET run == EmissionsFrom(rank, u)
                      IN  \E S \in SUBSET (1..6) :
                            /\ Cardinality(S) = Len(run)
                            /\ \A j \in DOMAIN run :
                                  /\ <<run[j][2]>>
                                        = QueryTarget(Grid, chunkOf(u), u, order[Nth(S, j)])
                                  /\ Accepts(Grid, u, run[j][2])

\* a participant whose emissions come from two chunks, one source with two
\* accepted directions and a rejected one between them
EmissionOrderWitness ==
    \E rank \in Ranks :
        /\ Finished(rank)
        /\ IsCube(config.k)
        /\ gen[rank].num_chunks > 1
        /\ \E i \in DOMAIN edges[rank], j \in DOMAIN edges[rank] :
              OffsetForChunk(Grid, gen[rank].start_chunk + 1) <= edges[rank][j][1]
              /\ edges[rank][i][1] < OffsetForChunk(Grid, gen[rank].start_chunk + 1)
        /\ \E u \in {edges[rank][i][1] : i \in DOMAIN edges[rank]} :
              /\ Len(EmissionsFrom(rank, u)) > 1
              /\ Len(EmissionsFrom(rank, u)) < Len(GenerateEdges(
                     [Grid EXCEPT !.edge_probability = PDen],
                     ChunkOfVertex(Grid, u), u))

\* the accepted adjacencies of the lattice incident to vertex u
Degree(u) ==
    IF u \in Vertices
    THEN Cardinality({v \in Vertices :
                        v # u /\ LatticeAdjacent(Grid, u, v) /\ Accepts(Grid, u, v)})
    ELSE 0

\* C17: after OutputDist() the root has written dist_size lines, and line u is
\* the degree of vertex u in the generated graph (0 for an id that is no
\* vertex); ids >= dist_size leave the histogram as it is.
DegreeHistogram ==
    IsCube(config.k) /\ pc[0].at = "Done" /\ pc[0].openable =>
        /\ Len(files[0].records) = config.dist_size
        /\ \A rank \in Ranks : DistSize(io[rank]) = config.dist_size
        /\ \A u \in 0..(config.dist_size - 1) : files[0].records[u + 1] = Degree(u)

\* C18: NumEdges() is the number of PushEdge calls if there was one, else half
\* the number of UpdateDist calls (rounded down), 0 for an untouched sink.
NumEdgesAccounting ==
    \A rank \in Ranks :
        LET sink == io[rank]
        IN  /\ NumEdges(sink)
                  = IF sink.calls_PushEdge > 0
                    THEN sink.calls_PushEdge
                    ELSE sink.calls_UpdateDist \div 2
            /\ sink.calls_PushEdge = 0 /\ sink.calls_UpdateDist = 0 =>
                  NumEdges(sink) = 0

\* a sink after an odd number (three at least) of UpdateDist calls and no
\* PushEdge, and one that received both kinds of call
NumEdgesWitness ==
    \E rank \in Ranks :
        /\ io[rank].calls_PushEdge = 0
        /\ io[rank].calls_UpdateDist > 2
        /\ io[rank].calls_UpdateDist % 2 = 1
        /\ NumEdges(io[rank]) > 0

----------------------------------------------------------------------------
(* Collective matching of the writers, lattice queries, edge seeds         *)

\* C21: when every participant calls the writer with the same arguments (and
\* can open its file), the participants execute the same sequence of
\* collectives: whenever all of them wait in a collective, it is the same one.
CollectiveMatching ==
    (/\ \A rank \in Ranks : pc[rank].openable
     /\ \A rank \in Ranks : pc[rank].at \in Collectives)
    => \E kind \in Collectives : \A rank \in Ranks : pc[rank].at = kind

\* C22: the edge seeds of two GenerateEdge calls on different unordered pairs
\* of vertices of the grid differ.
EdgeSeedInjective ==
    gen[0].state = "Generating" /\ gen[0].first # << >> =>
        LET a == gen[0].first[1]
            b == gen[0].latest[1]
        IN  {a.source, a.target} # {b.source, b.target} =>
                a.edge_seed # b.edge_seed

\* C23: for k = d^3, every pair handed to GenerateEdge (with p = 1: every pair
\* emitted) joins two vertices of the grid whose cells agree on two axes and
\* are one step apart on the third, wrapping only when periodic.
OnlyLatticeNeighboursQueried ==
    IsCube(config.k) /\ config.p = PDen =>
        \A rank \in Ranks :
            Finished(rank) =>
                \A e \in Emitted(rank) :
                    /\ e[1] \in Vertices
                    /\ e[2] \in Vertices
                    /\ LatticeAdjacent(Grid, e[1], e[2])

----------------------------------------------------------------------------
(* The output of GeneratorIO::OutputEdges                                  *)

\* the records of a header in file f: none, one line or two words
HeaderLen == IF ~config.output_header THEN 0
             ELSE IF config.output_format = "EDGE_LIST" THEN 1 ELSE 2

\* the pairs file f holds after its header, as written
PrintedEdges(f) ==
    LET records == files[f].records
    IN  IF config.output_format = "EDGE_LIST"
        THEN [i \in 1..(Len(records) - HeaderLen) |->
                <<records[HeaderLen + i][2], records[HeaderLen + i][3]>>]
        ELSE [i \in 1..((Len(records) - HeaderLen) \div 2) |->
                <<records[HeaderLen + 2 * i - 1], records[HeaderLen + 2 * i]>>]

\* the edge count in the header of file f
PrintedEdgeCount(f) ==
    IF config.output_format = "EDGE_LIST"
    THEN files[f].records[1][3]
    ELSE files[f].records[2]

\* the root has been through GatherPrint with a file it could open
GatherPrinted ==
    /\ config.output_single_file
    /\ pc[0].at \in {"Done", "Crashed"}
    /\ pc[0].openable

\* C24: the file the root writes in GatherPrint holds the edge records in
\* strictly increasing order of (source, target), holds every ordered pair a
\* participant emitted and no other, and a header's edge count is the number
\* of edge records.
GatheredOutputSorted ==
    GatherPrinted =>
        LET printed == PrintedEdges(0)
        IN  /\ \A i \in DOMAIN printed :
                  i > 1 => EdgeLess(printed[i - 1], printed[i])
            /\ {printed[i] : i \in DOMAIN printed}
                  = {<<(e[1] + 1) % SIntModulus, (e[2] + 1) % SIntModulus>> :
                        e \in UNION {Emitted(rank) : rank \in Ranks}}
            /\ config.output_header => PrintedEdgeCount(0) = Len(printed)

\* two participants both hold edges, the gathered list is not in order and
\* holds a pair twice, and the root has written the file with a header
GatheredOutputWitness ==
    /\ GatherPrinted
    /\ config.output_header
    /\ size > 1
    /\ \A rank \in Ranks : edges[rank] # << >>
    /\ Len(PrintedEdges(0)) < Len(GatherEdges(0))
    /\ \E i \in DOMAIN GatherEdges(0) :
          i > 1 /\ EdgeLess(GatherEdges(0)[i], GatherEdges(0)[i - 1])

\* C25: a file handle a GeneratorIO output routine opened is closed exactly
\* once by the time the routine is left, and no stdio call is made on it
\* after it was closed.
FileHandleDiscipline ==
    \A rank \in Ranks :
        /\ pc[rank].closed_handle_uses = 0
        /\ pc[rank].closes <= 1
        /\ pc[rank].at = "Done" /\ pc[rank].openable /\ (rank = 0 \/ ~config.output_single_file)
              => pc[rank].handle = "Closed" /\ pc[rank].closes = 1

----------------------------------------------------------------------------
(* The chunk count of an interface call                                    *)

\* C26: a Generate3DGrid call with k = 0 on a KaGen object created for P
\* participants runs its generator with P chunks, whatever calls were made on
\* the object before.
DefaultChunkCount ==
    kagen[0].pc \in {"Constructed", "Generated"} /\ kagen[0].arg_k = 0 =>
        /\ config.k = size
        /\ kagen[0].pc = "Generated" => Grid.total_chunks = size

----------------------------------------------------------------------------
(* The library routines on a participant's graph                           *)

\* the targets of the edges of the list whose source is vertex, in list order
TargetsOf(list, vertex) ==
    LET at == {i \in DOMAIN list : list[i][1] = vertex}
        nth(j) == CHOOSE i \in at : Cardinality({h \in at : h < i}) = j - 1
    IN  [j \in 1..Cardinality(at) |-> list[nth(j)][2]]

\* C27: for a graph whose sources lie in [first, second), BuildCSR returns
\* xadj of length second - first + 1 that starts at 0, does not decrease and
\* ends at the number of edges, and adjncy whose slice for each local vertex
\* holds the targets of that vertex, each as often as the list does, in
\* ascending order; sorting the input beforehand does not change the result.
BuildCSRCorrect ==
    pc[0].at = "Done" =>
        LET graph == pc[0].graph
            first == graph.vertex_range[1]
            num == graph.vertex_range[2] - first
            xadj == pc[0].csr.xadj
            adjncy == pc[0].csr.adjncy
        IN  /\ DOMAIN xadj = 0..num
            /\ DOMAIN adjncy = 0..(Len(graph.edges) - 1)
            /\ xadj[0] = 0
            /\ \A i \in 1..num : xadj[i - 1] <= xadj[i]
            /\ xadj[num] = Len(graph.edges)
            /\ \A i \in 0..(num - 1) :
                  LET slice == [j \in 1..(xadj[i + 1] - xadj[i]) |-> adjncy[xadj[i] + j - 1]]
                  IN  /\ BagOfSeq(slice) = BagOfSeq(TargetsOf(graph.edges, first + i))
                      /\ \A j \in DOMAIN slice : j > 1 => slice[j - 1] <= slice[j]
            /\ pc[0].csr = BuildCSR([graph EXCEPT !.edges = SortEdges(@)])

\* BuildCSR has returned for an unsorted list in which a vertex has two
\* different targets and a vertex before the last has no edge
BuildCSRWitness ==
    /\ pc[0].at = "Done"
    /\ ~IsSortedEdges(pc[0].graph.edges)
    /\ \E i \in DOMAIN pc[0].csr.xadj :
          i > 0 /\ i < Len(pc[0].graph.edges) /\ pc[0].csr.xadj[i] = pc[0].csr.xadj[i - 1]
    /\ \E i \in DOMAIN pc[0].csr.xadj :
          i > 0 /\ pc[0].csr.xadj[i] - pc[0].csr.xadj[i - 1] > 1
             /\ pc[0].csr.adjncy[pc[0].csr.xadj[i - 1]]
                   < pc[0].csr.adjncy[pc[0].csr.xadj[i] - 1]

\* C28: for a sorted list that is not empty, with sources in [first, second),
\* the bins of ComputeDegreeBins sum to second - first; bin 0 counts the
\* vertices of the range without edge, and bin floor(log2 d) + 1 those of
\* out-degree d >= 1.
DegreeBinsCoverVertices ==
    pc[0].at = "Done" /\ pc[0].edges # << >> =>
        LET local == pc[0].vertex_range[1]..(pc[0].vertex_range[2] - 1)
            degree(v) == Cardinality({i \in DOMAIN pc[0].edges :
                                         pc[0].edges[i][1] = v})
        IN  \A b \in DOMAIN pc[0].bins :
                pc[0].bins[b]
                    = Cardinality({v \in local :
                                      IF degree(v) = 0
                                      THEN b = 0
                                      ELSE b = Log2Floor(degree(v)) + 1})

\* C29: on an empty edge list PrintAdvancedStatistics does not read the front
\* of the list and hands no degree 0 to log2; the participant's minimum degree
\* is 0, and its bins hold all its vertices in bin 0.
EmptyListStatistics ==
    pc[0].edges = << >> =>
        /\ pc[0].front_of_empty = 0
        /\ pc[0].log2_of_zero = 0
        /\ pc[0].at # "Crashed"
        /\ pc[0].at = "Done" =>
              /\ pc[0].min = 0
              /\ \A b \in DOMAIN pc[0].bins :
                    pc[0].bins[b] = IF b = 0
                                    THEN pc[0].vertex_range[2] - pc[0].vertex_range[1]
                                    ELSE 0

\* C30: the cut edges counted by ComputeEdgeLocalicty are the edges with an
\* endpoint outside [first, second); in particular they include every edge
\* whose target is one of the ghost nodes of ComputeNumberOfGhostNodes.
CutEdgesAgreeWithGhostNodes ==
    pc[0].at = "Done" =>
        LET list == pc[0].edges
            local == pc[0].vertex_range[1]..(pc[0].vertex_range[2] - 1)
        IN  /\ pc[0].num_local_cut_edges
                  = Cardinality({i \in DOMAIN list :
                                    list[i][1] \notin local \/ list[i][2] \notin local})
            /\ pc[0].num_local_cut_edges
                  >= Cardinality({i \in DOMAIN list : list[i][2] \in pc[0].ghost_nodes})

====
